---- MODULE Spec2Model ----
(***************************************************************************)
(* A model of the bonbon replay engine (omertxyz/bonbon):                   *)
(*   - the assembler, bonbon/src/assemble.rs (Bonbon.update and the two     *)
(*     per-program updaters),                                               *)
(*   - the partitioner and its driver, bonbon/src/partition.rs,             *)
(*   - the fetch, partition and reassemble commands of                     *)
(*     chocolatier/src/main.rs.                                            *)
(*                                                                         *)
(* Conventions.  A Pubkey is a string.  Option<T> is a sequence of length   *)
(* at most one (<<>> is None, <<v>> is Some(v)).  Rust indices are 0-based, *)
(* sequences here are 1-based: v[i] in Rust is v[i + 1] here.  A Result is  *)
(* a string: "Ok", the name of the ErrorCode, or "Panic" when the code      *)
(* indexes a Vec out of bounds (instruction.accounts[index]) and the        *)
(* process aborts.  Instruction data is opaque bytes in the code; here it   *)
(* is the value the decoder of the program named by `enc` yields, and any   *)
(* other decoder fails on it.                                               *)
(***************************************************************************)
EXTENDS Integers, Sequences, FiniteSets, TLC

VARIABLES
    \* ---- assembler (bonbon/src/assemble.rs)
    bonbon,          \* the Bonbon aggregate
    last,            \* the last Bonbon.update call: its arguments and its result
                     \* (under SpecGlazing: the last apply_*_verification call)
    meta_set,        \* Option: the metadata_key a successful update first set
    edition_mint,    \* Option: the variant of the last successful mint-new-edition
    moved,           \* the account and owner the last successful move or burn names
    \* ---- partition_transaction (bonbon/src/partition.rs)
    tx,              \* the TransactionWithStatusMeta being partitioned
    pc,              \* position in partition_transaction
    token_metas,     \* Vec<TransactionTokenMeta> collected from the HashMap
    transient_metas, \* the transient overlay
    partitioned,     \* Vec<PartitionedInstruction> built so far
    result,          \* what partition_transaction returned
    outer_index,     \* loop counter of the outer instructions
    inner_next,      \* position of the peekable iterator over the inner groups
    inner_group,     \* Option: the inner group being consumed
    inner_index,     \* loop counter inside the inner group
    plast,           \* the last partitioner call: instruction, looked-up meta, result,
                     \* and the try_partition_instruction calls made so far
    run,             \* which run over tx this is, and the outcome of the first run
    \* ---- partition command (chocolatier/src/main.rs)
    cmd,             \* the command's loop: rows left, rows written, warnings
    \* ---- reassemble command (chocolatier/src/main.rs)
    rsm,             \* the command's loop: mints read, bonbons made, warnings
    \* ---- fetch command (chocolatier/src/main.rs)
    fch              \* the chunk loop: the range, chunk_start, the chunks requested

asm_vars == <<bonbon, last, meta_set, edition_mint, moved>>
part_vars == <<tx, pc, token_metas, transient_metas, partitioned, result,
               outer_index, inner_next, inner_group, inner_index, plast, run>>
vars == <<bonbon, last, meta_set, edition_mint, moved, tx, pc, token_metas,
          transient_metas, partitioned, result, outer_index, inner_next,
          inner_group, inner_index, plast, run, cmd, rsm, fch>>

----------------------------------------------------------------------------
(* Bounds of the model.                                                     *)

\* Bonbon.update is not called once glazing holds this many snapshots.
MaxGlazing == 2

----------------------------------------------------------------------------
(* Keys.                                                                    *)

DefaultKey == "default"              \* Pubkey::default()
TokenProgramId == "TokenProgram"     \* spl_token::id()
MetadataProgramId == "MetadataProgram" \* mpl_token_metadata::id()

\* account_keys of the transactions of the model; position i (0-based) is
\* account_keys[i].  The last key is the system program, whose address is
\* Pubkey::default().
AccountKeys ==
    << TokenProgramId, MetadataProgramId, "OtherProgram", "MintA", "MintB",
       "PdaA", "PdaB", "Creator1", "Creator2", "Collection1", "TokenAcct1",
       "TokenAcct2", "MasterA", DefaultKey >>

\* The position of key k in AccountKeys (0-based).
Idx(k) == (CHOOSE i \in 1..Len(AccountKeys) : AccountKeys[i] = k) - 1

\* An index no account_keys vector of the model has.
BadIndex == Len(AccountKeys) + 7

\* mpl_token_metadata::pda::find_metadata_account(mint).0: a program derived
\* address, one per mint, never the default key and never a key that is not
\* derived.
find_metadata_account(mint) ==
    CASE mint = "MintA" -> "PdaA"
      [] mint = "MintB" -> "PdaB"
      [] OTHER -> "Pda(" \o mint \o ")"

----------------------------------------------------------------------------
(* Option and Result helpers.                                               *)

None == <<>>
Some(v) == <<v>>
IsSome(o) == Len(o) = 1

\* account_keys.get(usize::from(instruction.accounts[index]))
\*     .ok_or(ErrorCode::BadAccountKeyIndex)
\* instruction.accounts[index] panics when index is out of bounds.
get_account_key(ins, account_keys, index) ==
    IF index >= Len(ins.accounts) THEN [t |-> "Panic"]
    ELSE IF ins.accounts[index + 1] >= Len(account_keys)
         THEN [t |-> "BadAccountKeyIndex"]
         ELSE [t |-> "Ok", key |-> account_keys[ins.accounts[index + 1] + 1]]

----------------------------------------------------------------------------
(* Assembler: bonbon/src/assemble.rs.                                       *)

\* impl From<MplCreator> for Creator (share: u8 into i16, no loss)
CreatorFrom(c) == [address |-> c.address, verified |-> c.verified, share |-> c.share]

\* creators.unwrap_or(vec![]).into_iter().map(Creator::from).collect()
from_creators(creators) ==
    IF IsSome(creators)
    THEN [i \in 1..Len(creators[1]) |-> CreatorFrom(creators[1][i])]
    ELSE <<>>

\* impl From<MplCollection> for Collection
CollectionFrom(c) == [address |-> c.key, verified |-> c.verified]

\* Option::map(Collection::from)
MapCollection(o) == IF IsSome(o) THEN Some(CollectionFrom(o[1])) ELSE None

\* Glazing::default()
DefaultGlazing == [uri |-> "", creators |-> <<>>, collection |-> None]

\* Bonbon::default()
DefaultBonbon ==
    [ mint_key |-> DefaultKey,
      metadata_key |-> DefaultKey,
      current_owner |-> None,
      current_account |-> None,
      edition_status |-> "None",
      limited_edition |-> None,
      glazing |-> <<>> ]

\* A mutant of FirstCreator: the last creator with that address is taken.
FirstCreator_last(creators, creator_key) ==
    IF \E i \in 1..Len(creators) : creators[i].address = creator_key
    THEN CHOOSE i \in 1..Len(creators) :
            /\ creators[i].address = creator_key
            /\ \A j \in (i + 1)..Len(creators) : creators[j].address # creator_key
    ELSE 0

\* The position of the first creator of `creators` whose address is
\* creator_key, 0 when there is none (the for loop with its break).
FirstCreator(creators, creator_key) ==
    IF \E i \in 1..Len(creators) : creators[i].address = creator_key
    THEN CHOOSE i \in 1..Len(creators) :
            /\ creators[i].address = creator_key
            /\ \A j \in 1..(i - 1) : creators[j].address # creator_key
    ELSE 0

\* A mutant of apply_creator_verification: the tip is rewritten in place.
apply_creator_verification_inplace(glazing, creator_key, verified) ==
    IF Len(glazing) > 0
    THEN LET tip == glazing[Len(glazing)]
             hit == FirstCreator(tip.creators, creator_key)
             next == [tip EXCEPT !.creators =
                        [i \in 1..Len(tip.creators) |->
                            IF i = hit
                            THEN [tip.creators[i] EXCEPT !.verified = verified]
                            ELSE tip.creators[i]]]
         IN  [glazing EXCEPT ![Len(glazing)] = next]
    ELSE <<[DefaultGlazing EXCEPT !.creators =
               <<[address |-> creator_key, verified |-> verified, share |-> 0]>>]>>

\* Bonbon::apply_creator_verification, as the new value of self.glazing.
apply_creator_verification(glazing, creator_key, verified) ==
    IF Len(glazing) > 0
    THEN LET tip == glazing[Len(glazing)]
             hit == FirstCreator(tip.creators, creator_key)
             next == [tip EXCEPT !.creators =
                        [i \in 1..Len(tip.creators) |->
                            IF i = hit
                            THEN [tip.creators[i] EXCEPT !.verified = verified]
                            ELSE tip.creators[i]]]
         IN  Append(glazing, next)
    ELSE Append(glazing,
                [DefaultGlazing EXCEPT !.creators =
                    <<[address |-> creator_key, verified |-> verified, share |-> 0]>>])

\* A mutant of apply_collection_verification: the new snapshot starts from
\* Glazing::default() whatever the glazing holds.
apply_collection_verification_default(glazing, collection_key, verified) ==
    Append(glazing,
           [DefaultGlazing EXCEPT !.collection =
               Some([address |-> collection_key, verified |-> verified])])

\* A mutant of apply_collection_verification: the history is restarted from
\* the new snapshot.
apply_collection_verification_reset(glazing, collection_key, verified) ==
    LET prev == IF Len(glazing) > 0 THEN glazing[Len(glazing)] ELSE DefaultGlazing
    IN  <<[prev EXCEPT !.collection =
              Some([address |-> collection_key, verified |-> verified])]>>

\* Bonbon::apply_collection_verification, as the new value of self.glazing.
apply_collection_verification(glazing, collection_key, verified) ==
    LET prev == IF Len(glazing) > 0 THEN glazing[Len(glazing)] ELSE DefaultGlazing
    IN  Append(glazing,
               [prev EXCEPT !.collection =
                   Some([address |-> collection_key, verified |-> verified])])

\* What an updater returns: the Bonbon as the call left it, and the Result.
Ret(b, r) == [bonbon |-> b, result |-> r]

\* MetadataInstruction::try_from_slice(&instruction.data)
DecodeMetadata(data) == IF data.enc = "metadata" THEN Some(data) ELSE None

\* TokenInstruction::unpack(&instruction.data)
DecodeToken(data) == IF data.enc = "token" THEN Some(data) ELSE None

\* A u64 is written [top |-> t, low |-> n] for t * 2^63 + n (t is bit 63), and
\* an i64 [neg63 |-> t, low |-> n] for n - t * 2^63: the checker's integers
\* are 32 bits wide.
U64(n) == [top |-> 0, low |-> n]

\* A mutant of AsI64: bit 63 is dropped.
AsI64_masked(u) == [neg63 |-> 0, low |-> u.low]

\* args.edition as i64 (edition is a u64): the bits are kept, bit 63 becomes
\* the sign.
AsI64(u) == [neg63 |-> u.top, low |-> u.low]

\* The arms of update_metadata_instruction, one operator per shape of arm.
\* k is the Result of the arm's first get_account_key.

\* A mutant of MetadataCreateArm: the metadata account is not compared with
\* the one derived from the mint.
MetadataCreateArm_unchecked(b, k, glz) ==
    IF k.t # "Ok" THEN Ret(b, k.t)
    ELSE Ret([b EXCEPT !.metadata_key = k.key,
                       !.glazing = Append(@, glz)], "Ok")

\* CreateMetadataAccount, CreateMetadataAccountV2
MetadataCreateArm(b, k, glz) ==
    IF k.t # "Ok" THEN Ret(b, k.t)
    ELSE IF find_metadata_account(b.mint_key) # k.key
         THEN Ret(b, "InvalidMetadataCreate")
         ELSE Ret([b EXCEPT !.metadata_key = k.key,
                            !.glazing = Append(@, glz)], "Ok")

\* A mutant of MetadataUpdateArm: an update without data appends an empty
\* snapshot.
MetadataUpdateArm_always(b, k, glz) ==
    IF k.t # "Ok" THEN Ret(b, k.t)
    ELSE IF b.metadata_key # k.key
         THEN Ret(b, "InvalidMetadataUpdate")
         ELSE Ret([b EXCEPT !.glazing =
                      Append(@, IF IsSome(glz) THEN glz[1] ELSE DefaultGlazing)],
                  "Ok")

\* UpdateMetadataAccount, UpdateMetadataAccountV2; glz is Some when the
\* update carries data.
MetadataUpdateArm(b, k, glz) ==
    IF k.t # "Ok" THEN Ret(b, k.t)
    ELSE IF b.metadata_key # k.key
         THEN Ret(b, "InvalidMetadataUpdate")
         ELSE IF IsSome(glz)
              THEN Ret([b EXCEPT !.glazing = Append(@, glz[1])], "Ok")
              ELSE Ret(b, "Ok")

\* A mutant of MasterEditionArm: edition_status is not looked at.
MasterEditionArm_noguard(b, k) ==
    IF k.t # "Ok" THEN Ret(b, k.t)
    ELSE IF b.metadata_key # k.key
         THEN Ret(b, "InvalidMasterEditionCreate")
         ELSE Ret([b EXCEPT !.edition_status = "Master"], "Ok")

\* A mutant of MasterEditionArm: only a Master edition_status is refused.
MasterEditionArm_limited(b, k) ==
    IF k.t # "Ok" THEN Ret(b, k.t)
    ELSE IF b.metadata_key # k.key \/ b.edition_status = "Master"
         THEN Ret(b, "InvalidMasterEditionCreate")
         ELSE Ret([b EXCEPT !.edition_status = "Master"], "Ok")

\* DeprecatedCreateMasterEdition, CreateMasterEdition, CreateMasterEditionV3
MasterEditionArm(b, k) ==
    IF k.t # "Ok" THEN Ret(b, k.t)
    ELSE IF b.metadata_key # k.key \/ b.edition_status # "None"
         THEN Ret(b, "InvalidMasterEditionCreate")
         ELSE Ret([b EXCEPT !.edition_status = "Master"], "Ok")

\* A mutant of MintEditionDeprecatedArm: limited_edition is left as it was.
MintEditionDeprecatedArm_keep(b, k) ==
    IF k.t # "Ok" THEN Ret(b, k.t)
    ELSE IF find_metadata_account(b.mint_key) # k.key
         THEN Ret(b, "InvalidMetadataCreate")
         ELSE Ret([b EXCEPT !.metadata_key = k.key,
                            !.edition_status = "Limited"], "Ok")

\* DeprecatedMintNewEditionFromMasterEditionViaPrintingToken
MintEditionDeprecatedArm(b, k) ==
    IF k.t # "Ok" THEN Ret(b, k.t)
    ELSE IF find_metadata_account(b.mint_key) # k.key
         THEN Ret(b, "InvalidMetadataCreate")
         ELSE Ret([b EXCEPT !.metadata_key = k.key,
                            !.edition_status = "Limited",
                            !.limited_edition = None], "Ok")

\* MintNewEditionFromMasterEditionViaToken / ViaVaultProxy.  km is the Result
\* of get_account_key(10) / (12), which the code evaluates after it has
\* assigned metadata_key and edition_status.
MintEditionArm(b, k, km, edition) ==
    IF k.t # "Ok" THEN Ret(b, k.t)
    ELSE IF find_metadata_account(b.mint_key) # k.key
         THEN Ret(b, "InvalidMetadataCreate")
         ELSE LET b1 == [b EXCEPT !.metadata_key = k.key,
                                  !.edition_status = "Limited"]
              IN  IF km.t # "Ok" THEN Ret(b1, km.t)
                  ELSE Ret([b1 EXCEPT !.limited_edition =
                               Some([master_key |-> km.key,
                                     edition_num |-> Some(AsI64(edition))])],
                           "Ok")

\* A mutant of CreatorVerifyArm: the metadata account is not compared with
\* bonbon.metadata_key.
CreatorVerifyArm_unchecked(b, k, kc, verified) ==
    IF k.t # "Ok" THEN Ret(b, k.t)
    ELSE IF kc.t # "Ok" THEN Ret(b, kc.t)
         ELSE Ret([b EXCEPT !.glazing =
                      apply_creator_verification(@, kc.key, verified)], "Ok")

\* SignMetadata (verified = true), RemoveCreatorVerification (false); kc is
\* the Result of get_account_key(1).
CreatorVerifyArm(b, k, kc, verified) ==
    IF k.t # "Ok" THEN Ret(b, k.t)
    ELSE IF b.metadata_key # k.key
         THEN Ret(b, "InvalidMetadataVerifyOperation")
         ELSE IF kc.t # "Ok" THEN Ret(b, kc.t)
              ELSE Ret([b EXCEPT !.glazing =
                           apply_creator_verification(@, kc.key, verified)], "Ok")

\* A mutant of CollectionVerifyArm: verified = false is passed.
CollectionVerifyArm_false(b, k, kc) ==
    IF k.t # "Ok" THEN Ret(b, k.t)
    ELSE IF b.metadata_key # k.key
         THEN Ret(b, "InvalidMetadataVerifyOperation")
         ELSE IF kc.t # "Ok" THEN Ret(b, kc.t)
              ELSE Ret([b EXCEPT !.glazing =
                           apply_collection_verification(@, kc.key, FALSE)], "Ok")

\* VerifyCollection, SetAndVerifyCollection, UnverifyCollection: all three
\* pass verified = true.  kc is the Result of get_account_key(3) / (4) / (3).
CollectionVerifyArm(b, k, kc) ==
    IF k.t # "Ok" THEN Ret(b, k.t)
    ELSE IF b.metadata_key # k.key
         THEN Ret(b, "InvalidMetadataVerifyOperation")
         ELSE IF kc.t # "Ok" THEN Ret(b, kc.t)
              ELSE Ret([b EXCEPT !.glazing =
                           apply_collection_verification(@, kc.key, TRUE)], "Ok")

\* The metadata variants whose arm is empty.
MetadataNoOps ==
    { "UpdatePrimarySaleHappenedViaToken", "DeprecatedSetReservationList",
      "DeprecatedCreateReservationList", "DeprecatedMintPrintingTokensViaToken",
      "DeprecatedMintPrintingTokens", "ConvertMasterEditionV1ToV2",
      "PuffMetadata", "Utilize", "ApproveUseAuthority", "RevokeUseAuthority",
      "ApproveCollectionAuthority", "RevokeCollectionAuthority",
      "FreezeDelegatedAccount", "ThawDelegatedAccount" }

update_metadata_instruction(b, ins, account_keys, owners) ==
    LET key(i) == get_account_key(ins, account_keys, i)
        dec == DecodeMetadata(ins.data)
    IN
    IF ~IsSome(dec) THEN Ret(b, "FailedInstructionDeserialization")
    ELSE
    LET mi == dec[1] IN
    CASE mi.kind = "CreateMetadataAccount" ->
            MetadataCreateArm(b, key(0),
                [uri |-> mi.uri, creators |-> from_creators(mi.creators),
                 collection |-> None])
      [] mi.kind = "CreateMetadataAccountV2" ->
            MetadataCreateArm(b, key(0),
                [uri |-> mi.uri, creators |-> from_creators(mi.creators),
                 collection |-> MapCollection(mi.collection)])
      [] mi.kind = "UpdateMetadataAccount" ->
            MetadataUpdateArm(b, key(0),
                IF IsSome(mi.data)
                THEN Some([uri |-> mi.data[1].uri,
                           creators |-> from_creators(mi.data[1].creators),
                           collection |-> None])
                ELSE None)
      [] mi.kind = "UpdateMetadataAccountV2" ->
            MetadataUpdateArm(b, key(0),
                IF IsSome(mi.data)
                THEN Some([uri |-> mi.data[1].uri,
                           creators |-> from_creators(mi.data[1].creators),
                           collection |-> MapCollection(mi.data[1].collection)])
                ELSE None)
      [] mi.kind = "DeprecatedCreateMasterEdition" -> MasterEditionArm(b, key(7))
      [] mi.kind = "CreateMasterEdition" -> MasterEditionArm(b, key(5))
      [] mi.kind = "CreateMasterEditionV3" -> MasterEditionArm(b, key(5))
      [] mi.kind = "DeprecatedMintNewEditionFromMasterEditionViaPrintingToken" ->
            MintEditionDeprecatedArm(b, key(0))
      [] mi.kind = "MintNewEditionFromMasterEditionViaToken" ->
            MintEditionArm(b, key(0), key(10), mi.edition)
      [] mi.kind = "MintNewEditionFromMasterEditionViaVaultProxy" ->
            MintEditionArm(b, key(0), key(12), mi.edition)
      [] mi.kind = "SignMetadata" -> CreatorVerifyArm(b, key(0), key(1), TRUE)
      [] mi.kind = "RemoveCreatorVerification" ->
            CreatorVerifyArm(b, key(0), key(1), FALSE)
      [] mi.kind = "VerifyCollection" -> CollectionVerifyArm(b, key(0), key(3))
      [] mi.kind = "SetAndVerifyCollection" -> CollectionVerifyArm(b, key(0), key(4))
      [] mi.kind = "UnverifyCollection" -> CollectionVerifyArm(b, key(0), key(3))
      [] mi.kind \in MetadataNoOps -> Ret(b, "Ok")

\* get_token_meta_for of update_token_instruction, then .map(|m| m.owner_key):
\* the owner_key of the first entry of owners whose account_index is
\* instruction.accounts[index].  The caller has checked index is in bounds.
OwnerFor(ins, owners, index) ==
    LET a == ins.accounts[index + 1]
        hits == {i \in 1..Len(owners) : owners[i].account_index = a}
    IN  IF hits = {} THEN None
        ELSE Some(owners[CHOOSE i \in hits : \A j \in hits : i <= j].owner_key)

\* Transfer, MintTo, MintToChecked (index 1), TransferChecked (index 2):
\* current_owner is assigned before get_account_key(index)? is evaluated.
TokenMoveArm(b, ins, account_keys, owners, index) ==
    IF index >= Len(ins.accounts) THEN Ret(b, "Panic")
    ELSE LET b1 == [b EXCEPT !.current_owner = OwnerFor(ins, owners, index)]
             k == get_account_key(ins, account_keys, index)
         IN  IF k.t # "Ok" THEN Ret(b1, k.t)
             ELSE Ret([b1 EXCEPT !.current_account = Some(k.key)], "Ok")

\* The token variants whose arm is empty.
TokenNoOps ==
    { "InitializeAccount", "InitializeAccount2", "SetAuthority",
      "InitializeMultisig", "Approve", "Revoke", "CloseAccount",
      "FreezeAccount", "ThawAccount", "ApproveChecked", "SyncNative" }

update_token_instruction(b, ins, account_keys, owners) ==
    LET dec == DecodeToken(ins.data) IN
    IF ~IsSome(dec) THEN Ret(b, "FailedInstructionDeserialization")
    ELSE
    LET ti == dec[1] IN
    CASE ti.kind = "InitializeMint" ->
            LET k == get_account_key(ins, account_keys, 0)
            IN  IF k.t # "Ok" THEN Ret(b, k.t)
                ELSE Ret([b EXCEPT !.mint_key = k.key], "Ok")
      [] ti.kind \in {"Transfer", "MintTo", "MintToChecked"} ->
            TokenMoveArm(b, ins, account_keys, owners, 1)
      [] ti.kind = "TransferChecked" ->
            TokenMoveArm(b, ins, account_keys, owners, 2)
      [] ti.kind \in {"Burn", "BurnChecked"} ->
            Ret([b EXCEPT !.current_owner = None, !.current_account = None], "Ok")
      [] ti.kind \in TokenNoOps -> Ret(b, "Ok")

\* The updaters of reassemble (chocolatier/src/main.rs).
Updaters ==
    << [program_id |-> TokenProgramId, update |-> "token"],
       [program_id |-> MetadataProgramId, update |-> "metadata"] >>

\* A mutant of Bonbon_update: an instruction of a program with no updater is
\* handed to the first updater of the registry.
Bonbon_update_first(b, ins, account_keys, owners, updaters) ==
    IF ins.program_id_index >= Len(account_keys)
    THEN Ret(b, "BadAccountKeyIndex")
    ELSE
    LET program_id == account_keys[ins.program_id_index + 1]
        hits == {i \in 1..Len(updaters) : updaters[i].program_id = program_id}
        u == IF hits = {} THEN updaters[1]
             ELSE updaters[CHOOSE i \in hits : \A j \in hits : i <= j]
    IN  IF u.update = "token"
        THEN update_token_instruction(b, ins, account_keys, owners)
        ELSE update_metadata_instruction(b, ins, account_keys, owners)

\* Bonbon::update
Bonbon_update(b, ins, account_keys, owners, updaters) ==
    IF ins.program_id_index >= Len(account_keys)
    THEN Ret(b, "BadAccountKeyIndex")
    ELSE
    LET program_id == account_keys[ins.program_id_index + 1]
        hits == {i \in 1..Len(updaters) : updaters[i].program_id = program_id}
    IN  IF hits = {} THEN Ret(b, "Ok")
        ELSE LET u == updaters[CHOOSE i \in hits : \A j \in hits : i <= j]
             IN  IF u.update = "token"
                 THEN update_token_instruction(b, ins, account_keys, owners)
                 ELSE update_metadata_instruction(b, ins, account_keys, owners)

----------------------------------------------------------------------------
(* The token-balance index of partition_transaction.                        *)

\* A mint string that is not base58.
BadMintString == "!not-base58!"

\* meta_from_balance: Option, None for Err(BadPubkeyString).
meta_from_balance(b) ==
    IF b.mint = BadMintString THEN None
    ELSE Some([account_index |-> b.account_index,
               decimals |-> b.decimals,
               pre_amount |-> None,
               post_amount |-> None,
               mint_key |-> b.mint])

\* One pass of `for balance in ...balances`: entry(account_index)
\* .or_insert(token_meta), then the amount is written to `field`.  The state
\* of the fold is [err, map]; map is the HashMap, a function of account_index.
RECURSIVE FoldBalances(_, _, _, _)
FoldBalances(acc, balances, i, field) ==
    IF acc.err \/ i > Len(balances) THEN acc
    ELSE LET b == balances[i]
             m == meta_from_balance(b)
         IN  IF ~IsSome(m) THEN [acc EXCEPT !.err = TRUE]
             ELSE LET a == b.account_index
                      map1 == IF a \in DOMAIN acc.map THEN acc.map
                              ELSE acc.map @@ (a :> m[1])
                      map2 == [map1 EXCEPT ![a][field] = Some(b.amount)]
                  IN  FoldBalances([acc EXCEPT !.map = map2], balances,
                                   i + 1, field)

\* A mutant of BuildIndex: the post balances are read before the pre
\* balances.
BuildIndex_postfirst(pre, post) ==
    FoldBalances(FoldBalances([err |-> FALSE, map |-> <<>>], post, 1, "post_amount"),
                 pre, 1, "pre_amount")

\* The two loops that fill token_metas (the HashMap).
BuildIndex(pre, post) ==
    FoldBalances(FoldBalances([err |-> FALSE, map |-> <<>>], pre, 1, "pre_amount"),
                 post, 1, "post_amount")

\* token_metas.into_values().collect::<Vec<_>>(): the values in the order the
\* HashMap iterates them, which is any order.
ValueOrders(map) ==
    LET n == Cardinality(DOMAIN map)
    IN  { [i \in 1..n |-> map[o[i]]] :
            o \in {f \in [1..n -> DOMAIN map] :
                      \A x, y \in 1..n : x # y => f[x] # f[y]} }

----------------------------------------------------------------------------
(* The Bonbon.update calls of the model.                                    *)

Ins(pidx, accounts, data) ==
    [program_id_index |-> pidx, accounts |-> accounts, data |-> data]

\* An accounts list of length len: position p (0-based) names the key f[p]
\* where f is defined, and "OtherProgram" elsewhere.
Accts(len, f) ==
    [i \in 1..len |-> IF (i - 1) \in DOMAIN f THEN Idx(f[i - 1])
                      ELSE Idx("OtherProgram")]

\* The accounts list of a well-formed metadata instruction (the longest
\* layout, MintNewEditionFromMasterEditionViaVaultProxy, reads position 12).
MetaAccts(f) == Accts(Len(AccountKeys), f)

MetaIns(accounts, data) == Ins(Idx(MetadataProgramId), accounts, data)
TokenIns(accounts, data) == Ins(Idx(TokenProgramId), accounts, data)

MetaData(kind) == [enc |-> "metadata", kind |-> kind]
TokenData(kind) == [enc |-> "token", kind |-> kind]

Creator1U == [address |-> "Creator1", verified |-> FALSE, share |-> 100]
Collection1U == [key |-> "Collection1", verified |-> FALSE]

\* The metadata accounts the instructions of the model name at their
\* metadata position.
MetaTargets == {"PdaA", "PdaB"}

CreateInstructions ==
    { MetaIns(MetaAccts(0 :> m),
              [enc |-> "metadata", kind |-> "CreateMetadataAccount",
               uri |-> "uri1", creators |-> Some(<<Creator1U>>)])
        : m \in MetaTargets }
    \cup
    { MetaIns(MetaAccts(0 :> m),
              [enc |-> "metadata", kind |-> "CreateMetadataAccountV2",
               uri |-> "uri2", creators |-> None,
               collection |-> Some(Collection1U)])
        : m \in MetaTargets }

UpdateInstructions ==
    { MetaIns(MetaAccts(0 :> m),
              [enc |-> "metadata", kind |-> "UpdateMetadataAccount", data |-> d])
        : m \in MetaTargets,
          d \in {None, Some([uri |-> "uri3", creators |-> None])} }
    \cup
    { MetaIns(MetaAccts(0 :> "PdaA"),
              [enc |-> "metadata", kind |-> "UpdateMetadataAccountV2", data |-> d])
        : d \in {None, Some([uri |-> "uri3", creators |-> Some(<<Creator1U>>),
                             collection |-> None])} }

MasterEditionInstructions ==
    { MetaIns(MetaAccts(7 :> m), MetaData("DeprecatedCreateMasterEdition"))
        : m \in MetaTargets }
    \cup
    { MetaIns(MetaAccts(5 :> m), MetaData(k))
        : m \in MetaTargets, k \in {"CreateMasterEdition", "CreateMasterEditionV3"} }

MintEditionInstructions ==
    { MetaIns(MetaAccts(0 :> m),
              MetaData("DeprecatedMintNewEditionFromMasterEditionViaPrintingToken"))
        : m \in MetaTargets }
    \cup
    { MetaIns(MetaAccts((0 :> m) @@ (10 :> "MasterA")),
              [enc |-> "metadata", kind |-> "MintNewEditionFromMasterEditionViaToken",
               edition |-> U64(42)])
        : m \in MetaTargets }
    \cup
    \* an edition of 2^63 + 7
    { MetaIns(MetaAccts((0 :> "PdaA") @@ (10 :> "MasterA")),
              [enc |-> "metadata", kind |-> "MintNewEditionFromMasterEditionViaToken",
               edition |-> [top |-> 1, low |-> 7]]) }
    \cup
    { MetaIns(MetaAccts((0 :> "PdaA") @@ (12 :> "MasterA")),
              [enc |-> "metadata",
               kind |-> "MintNewEditionFromMasterEditionViaVaultProxy",
               edition |-> U64(42)]) }

VerifyInstructions ==
    { MetaIns(MetaAccts((0 :> m) @@ (1 :> "Creator1")), MetaData(k))
        : m \in MetaTargets, k \in {"SignMetadata", "RemoveCreatorVerification"} }
    \cup
    { MetaIns(MetaAccts((0 :> "PdaA") @@ (3 :> "Collection1")), MetaData(k))
        : k \in {"VerifyCollection", "UnverifyCollection"} }
    \cup
    { MetaIns(MetaAccts((0 :> "PdaA") @@ (4 :> "Collection1")),
              MetaData("SetAndVerifyCollection")) }

\* Instructions that do not change the Bonbon, or fail before they could.
OtherInstructions ==
    { MetaIns(<<>>, MetaData("PuffMetadata")),
      MetaIns(<<>>, MetaData("ThawDelegatedAccount")),
      \* the token program's data handed to the metadata updater, and back
      MetaIns(<<>>, TokenData("CloseAccount")),
      TokenIns(<<>>, MetaData("PuffMetadata")),
      TokenIns(<<>>, TokenData("CloseAccount")),
      \* a program with no updater; a program index outside account_keys
      Ins(Idx("OtherProgram"), <<>>, TokenData("Burn")),
      Ins(BadIndex, <<>>, TokenData("Burn")),
      \* an account index outside account_keys
      MetaIns(<<BadIndex>>,
              [enc |-> "metadata", kind |-> "CreateMetadataAccount",
               uri |-> "uri1", creators |-> None]) }

\* Mint-new-edition instructions whose master edition account cannot be
\* read: position 10 names no account key, or the accounts list stops short
\* of position 10.
MintEditionMalformed ==
    { MetaIns([MetaAccts(0 :> "PdaA") EXCEPT ![11] = BadIndex],
              [enc |-> "metadata", kind |-> "MintNewEditionFromMasterEditionViaToken",
               edition |-> U64(42)]) }
    \cup
    { MetaIns(Accts(3, 0 :> "PdaA"),
              [enc |-> "metadata", kind |-> "MintNewEditionFromMasterEditionViaToken",
               edition |-> U64(42)]) }

\* A create-master-edition whose metadata account cannot be read: position
\* 5 names no account key.
MasterEditionMalformed ==
    { MetaIns([MetaAccts(0 :> "PdaA") EXCEPT ![6] = BadIndex],
              MetaData("CreateMasterEdition")) }

\* Metadata instructions that name the system program, whose address is
\* Pubkey::default(), where the metadata account is expected.
SentinelInstructions ==
    { MetaIns(MetaAccts((0 :> DefaultKey) @@ (1 :> "Creator1")),
              MetaData("SignMetadata")),
      MetaIns(MetaAccts(0 :> DefaultKey),
              [enc |-> "metadata", kind |-> "UpdateMetadataAccount",
               data |-> Some([uri |-> "uri3", creators |-> None])]),
      MetaIns(MetaAccts(5 :> DefaultKey), MetaData("CreateMasterEdition")) }

MintInstructions ==
    { TokenIns(Accts(2, 0 :> m), [enc |-> "token", kind |-> "InitializeMint",
                                 decimals |-> 0])
        : m \in {"MintA", "MintB"} }

\* A call of Bonbon.update: the instruction and the owners handed with it.
Call(ins, owners) == [ins |-> ins, owners |-> owners]

CoreCalls ==
    { Call(i, <<>>) : i \in CreateInstructions \cup UpdateInstructions
                          \cup MasterEditionInstructions \cup MintEditionInstructions
                          \cup VerifyInstructions \cup OtherInstructions
                          \cup MintInstructions \cup MintEditionMalformed
                          \cup MasterEditionMalformed \cup SentinelInstructions }

\* A TransactionTokenOwnerMeta.
Own(account_index, owner_key) ==
    [account_index |-> account_index, owner_key |-> owner_key]

\* The owners handed to Bonbon.update with a token instruction: none, one
\* for TokenAcct2, one for each token account, two for TokenAcct2, and one
\* whose account_index is outside account_keys.
OwnerLists ==
    { <<>>,
      <<Own(Idx("TokenAcct2"), "Owner1")>>,
      <<Own(Idx("TokenAcct1"), "Owner2"), Own(Idx("TokenAcct2"), "Owner1")>>,
      <<Own(Idx("TokenAcct2"), "Owner2"), Own(Idx("TokenAcct2"), "Owner1")>>,
      <<Own(BadIndex, "Owner2")>> }

\* Token instructions that move or burn the token.
MoveInstructions ==
    { TokenIns(Accts(3, (0 :> "TokenAcct1") @@ (1 :> "TokenAcct2")),
               [enc |-> "token", kind |-> "Transfer", amount |-> 1]),
      TokenIns(Accts(3, (0 :> "MintA") @@ (1 :> "TokenAcct1")),
               [enc |-> "token", kind |-> "MintTo", amount |-> 1]),
      TokenIns(Accts(3, (0 :> "MintA") @@ (1 :> "TokenAcct2")),
               [enc |-> "token", kind |-> "MintToChecked", amount |-> 1,
                decimals |-> 0]),
      TokenIns(Accts(4, (0 :> "TokenAcct2") @@ (1 :> "MintA")
                           @@ (2 :> "TokenAcct1")),
               [enc |-> "token", kind |-> "TransferChecked", amount |-> 1,
                decimals |-> 0]),
      TokenIns(Accts(3, 0 :> "TokenAcct1"),
               [enc |-> "token", kind |-> "Burn", amount |-> 1]),
      TokenIns(Accts(3, 0 :> "TokenAcct2"),
               [enc |-> "token", kind |-> "BurnChecked", amount |-> 1,
                decimals |-> 0]) }

\* Token instructions that leave the Bonbon's owner alone, and moves whose
\* destination cannot be read: position 1 names no account key, or the
\* accounts list stops short of position 1.
TokenOtherInstructions ==
    { TokenIns(Accts(3, 0 :> "TokenAcct1"),
               [enc |-> "token", kind |-> "Approve", amount |-> 1]),
      TokenIns(Accts(3, 0 :> "TokenAcct2"), TokenData("CloseAccount")),
      TokenIns(<<Idx("TokenAcct1"), BadIndex>>,
               [enc |-> "token", kind |-> "Transfer", amount |-> 1]),
      TokenIns(<<Idx("TokenAcct1")>>,
               [enc |-> "token", kind |-> "MintTo", amount |-> 1]) }

TokenCalls ==
    { Call(i, o) : i \in MoveInstructions \cup TokenOtherInstructions
                         \cup MintInstructions,
                   o \in OwnerLists }

----------------------------------------------------------------------------
(* The assembler as a state machine: one Bonbon, any sequence of calls.     *)

\* A successful instruction of one of these kinds has assigned metadata_key.
AssignsMetadataKey(ins) ==
    /\ ins.program_id_index = Idx(MetadataProgramId)
    /\ ins.data.enc = "metadata"
    /\ ins.data.kind \in
         { "CreateMetadataAccount", "CreateMetadataAccountV2",
           "DeprecatedMintNewEditionFromMasterEditionViaPrintingToken",
           "MintNewEditionFromMasterEditionViaToken",
           "MintNewEditionFromMasterEditionViaVaultProxy" }

\* The instruction is a mint-new-edition that reaches the metadata updater.
IsMintEdition(ins) ==
    /\ ins.program_id_index = Idx(MetadataProgramId)
    /\ ins.data.enc = "metadata"
    /\ ins.data.kind \in
         { "DeprecatedMintNewEditionFromMasterEditionViaPrintingToken",
           "MintNewEditionFromMasterEditionViaToken",
           "MintNewEditionFromMasterEditionViaVaultProxy" }

\* The instruction is a Transfer, MintTo or Burn, checked or not, that
\* reaches the token updater.
IsMoveOrBurn(ins) ==
    /\ ins.program_id_index = Idx(TokenProgramId)
    /\ ins.data.enc = "token"
    /\ ins.data.kind \in {"Transfer", "MintTo", "MintToChecked",
                          "TransferChecked", "Burn", "BurnChecked"}

\* The position of the destination token account in the accounts of a move.
DestinationPosition(kind) == IF kind = "TransferChecked" THEN 2 ELSE 1

\* What a successful move or burn names: the destination account's key and
\* the owner_key of the owners entry for that account (None when there is
\* none); a burn names neither.
NamedByMove(call) ==
    IF call.ins.data.kind \in {"Burn", "BurnChecked"}
    THEN [account |-> None, owner |-> None]
    ELSE LET a == call.ins.accounts[DestinationPosition(call.ins.data.kind) + 1]
         IN  [account |-> Some(AccountKeys[a + 1]),
              owner |-> IF \E i \in 1..Len(call.owners) :
                              call.owners[i].account_index = a
                        THEN Some(call.owners[
                                 CHOOSE i \in 1..Len(call.owners) :
                                    /\ call.owners[i].account_index = a
                                    /\ \A j \in 1..(i - 1) :
                                          call.owners[j].account_index # a
                              ].owner_key)
                        ELSE None]

AsmInit ==
    /\ bonbon = DefaultBonbon
    /\ last = [ins |-> Ins(0, <<>>, [enc |-> "none", kind |-> "none"]), owners |-> <<>>, result |-> "None"]
    /\ meta_set = None
    /\ edition_mint = None
    /\ moved = [account |-> None, owner |-> None]

\* bonbon.update(&instruction, &keys, &owners, &updaters)
Update(call) ==
    /\ last.result # "Panic"
    /\ Len(bonbon.glazing) < MaxGlazing
    /\ LET r == Bonbon_update(bonbon, call.ins, AccountKeys, call.owners, Updaters)
       IN  /\ bonbon' = r.bonbon
           /\ last' = [ins |-> call.ins, owners |-> call.owners,
                       result |-> r.result]
           /\ meta_set' =
                IF /\ meta_set = None
                   /\ r.result = "Ok"
                   /\ AssignsMetadataKey(call.ins)
                   /\ r.bonbon.metadata_key # DefaultKey
                THEN Some(r.bonbon.metadata_key)
                ELSE meta_set
           /\ edition_mint' =
                IF r.result = "Ok" /\ IsMintEdition(call.ins)
                THEN Some(call.ins.data.kind) ELSE edition_mint
           /\ moved' =
                IF r.result = "Ok" /\ IsMoveOrBurn(call.ins)
                THEN NamedByMove(call) ELSE moved

----------------------------------------------------------------------------
(* Partitioner: bonbon/src/partition.rs.                                    *)

\* What a partitioner returns: the Result, the partition key (Option) on Ok,
\* the transient overlay as the call left it, and the TransactionTokenMeta
\* the call looked up (Option).
PRet(r, key, transient, meta) ==
    [result |-> r, key |-> key, transient |-> transient, meta |-> meta]

\* metas.iter().find(|m| m.account_index == a)
FindMeta(metas, a) ==
    LET hits == {i \in 1..Len(metas) : metas[i].account_index = a}
    IN  IF hits = {} THEN None
        ELSE Some(metas[CHOOSE i \in hits : \A j \in hits : i <= j])

\* A mutant of get_token_meta_for: the first entry of the vector is taken
\* whatever its account_index.
get_token_meta_for_first(ins, metas, transient, index) ==
    IF Len(metas) > 0 THEN Some(metas[1])
    ELSE FindMeta(transient, ins.accounts[index + 1])

\* get_token_meta_for of partition_token_instruction; the caller has checked
\* that instruction.accounts[index] is in bounds.
get_token_meta_for(ins, metas, transient, index) ==
    LET a == ins.accounts[index + 1]
        v == FindMeta(metas, a)
    IN  IF IsSome(v) THEN v ELSE FindMeta(transient, a)

\* amount_ok: the amount is absent, or one byte, '0' (0x30) or '1' (0x31).
\* A StringAmount is the sequence of its bytes.
amount_ok(amount) ==
    IF IsSome(amount)
    THEN Len(amount[1]) = 1 /\ (amount[1][1] = 48 \/ amount[1][1] = 49)
    ELSE TRUE

\* A mutant of heuristic_token_meta_ok: decimals is not looked at.
heuristic_token_meta_ok_nodecimals(meta) ==
    amount_ok(meta.pre_amount) /\ amount_ok(meta.post_amount)

heuristic_token_meta_ok(meta) ==
    meta.decimals = 0 /\ amount_ok(meta.pre_amount) /\ amount_ok(meta.post_amount)

\* heuristic_token_meta_ok(token_meta).then(|| token_meta.mint_key)
HeuristicKey(meta) ==
    IF heuristic_token_meta_ok(meta) THEN Some(meta.mint_key) ELSE None

\* A mutant of token_account_mint_key: a missing TransactionTokenMeta is
\* Ok(None).
token_account_mint_key_lenient(ins, metas, transient, index) ==
    IF index >= Len(ins.accounts) THEN PRet("Panic", None, transient, None)
    ELSE LET m == get_token_meta_for(ins, metas, transient, index)
         IN  IF ~IsSome(m) THEN PRet("Ok", None, transient, None)
             ELSE PRet("Ok", HeuristicKey(m[1]), transient, m)

token_account_mint_key(ins, metas, transient, index) ==
    IF index >= Len(ins.accounts) THEN PRet("Panic", None, transient, None)
    ELSE LET m == get_token_meta_for(ins, metas, transient, index)
         IN  IF ~IsSome(m)
             THEN PRet("BadTokenMetaAccountIndex", None, transient, None)
             ELSE PRet("Ok", HeuristicKey(m[1]), transient, m)

\* A mutant of add_transient_token_meta: the pushed record has decimals 0.
add_transient_token_meta_nft(ins, account_keys, transient) ==
    LET k == get_account_key(ins, account_keys, 1)
    IN  IF k.t # "Ok" THEN PRet(k.t, None, transient, None)
        ELSE PRet("Ok", None,
                  Append(transient,
                         [account_index |-> ins.accounts[1],
                          decimals |-> 0,
                          pre_amount |-> None,
                          post_amount |-> None,
                          mint_key |-> k.key]),
                  None)

\* add_transient_token_meta: the pushed record is built, get_account_key(1)?
\* included, before the push.
add_transient_token_meta(ins, account_keys, transient) ==
    LET k == get_account_key(ins, account_keys, 1)
    IN  IF k.t # "Ok" THEN PRet(k.t, None, transient, None)
        ELSE PRet("Ok", None,
                  Append(transient,
                         [account_index |-> ins.accounts[1],
                          decimals |-> 1,
                          pre_amount |-> None,
                          post_amount |-> None,
                          mint_key |-> k.key]),
                  None)

\* A mutant of InitializeAccountArm: the account is pushed to the overlay
\* without looking it up first.
InitializeAccountArm_always(ins, account_keys, metas, transient) ==
    IF Len(ins.accounts) = 0 THEN PRet("Panic", None, transient, None)
    ELSE add_transient_token_meta(ins, account_keys, transient)

\* The InitializeAccount and InitializeAccount2 arms.
InitializeAccountArm(ins, account_keys, metas, transient) ==
    IF Len(ins.accounts) = 0 THEN PRet("Panic", None, transient, None)
    ELSE LET m == get_token_meta_for(ins, metas, transient, 0)
         IN  IF IsSome(m) THEN PRet("Ok", HeuristicKey(m[1]), transient, m)
             ELSE add_transient_token_meta(ins, account_keys, transient)

\* Vec::swap_remove(i), i 1-based here: the last element takes the place of
\* the removed one.
SwapRemove(v, i) ==
    [j \in 1..(Len(v) - 1) |-> IF j = i THEN v[Len(v)] ELSE v[j]]

\* A mutant of CloseAccountArm: the overlay is left as it is.
CloseAccountArm_keep(ins, transient) == PRet("Ok", None, transient, None)

\* The CloseAccount arm.  The closure that reads instruction.accounts[0] is
\* called once per overlay entry, so an empty accounts list panics only when
\* the overlay is not empty.
CloseAccountArm(ins, transient) ==
    IF Len(transient) = 0 THEN PRet("Ok", None, transient, None)
    ELSE IF Len(ins.accounts) = 0 THEN PRet("Panic", None, transient, None)
    ELSE LET hits == {i \in 1..Len(transient) :
                        transient[i].account_index = ins.accounts[1]}
         IN  IF hits = {} THEN PRet("Ok", None, transient, None)
             ELSE PRet("Ok", None,
                       SwapRemove(transient,
                                  CHOOSE i \in hits : \A j \in hits : i <= j),
                       None)

\* A mutant of PreCheck: no instruction is turned away.
PreCheck_none(ti) == FALSE

\* The checks on amount and decimals that return Ok(None) before anything
\* else is read: `if amount > 1 { return Ok(None); }` and
\* `if decimals != 0 || amount > 1 { return Ok(None); }`.
PreCheck(ti) ==
    CASE ti.kind \in {"Transfer", "Approve", "MintTo", "Burn"} -> ti.amount > 1
      [] ti.kind \in {"TransferChecked", "ApproveChecked", "MintToChecked",
                      "BurnChecked"} -> ti.decimals # 0 \/ ti.amount > 1
      [] OTHER -> FALSE

partition_token_instruction(ins, account_keys, metas, transient) ==
    LET dec == DecodeToken(ins.data)
        mint_key(i) == token_account_mint_key(ins, metas, transient, i)
        none == PRet("Ok", None, transient, None)
    IN
    IF ~IsSome(dec)
    THEN PRet("FailedInstructionDeserialization", None, transient, None)
    ELSE
    LET ti == dec[1] IN
    CASE ti.kind = "InitializeMint" ->
            IF ti.decimals # 0 THEN none
            ELSE LET k == get_account_key(ins, account_keys, 0)
                 IN  IF k.t # "Ok" THEN PRet(k.t, None, transient, None)
                     ELSE PRet("Ok", Some(k.key), transient, None)
      [] ti.kind \in {"InitializeAccount", "InitializeAccount2"} ->
            InitializeAccountArm(ins, account_keys, metas, transient)
      [] ti.kind \in {"InitializeMultisig", "SyncNative"} -> none
      [] ti.kind \in {"Transfer", "Approve", "Burn"} ->
            IF PreCheck(ti) THEN none ELSE mint_key(0)
      [] ti.kind = "MintTo" ->
            IF PreCheck(ti) THEN none ELSE mint_key(1)
      [] ti.kind \in {"Revoke", "FreezeAccount", "ThawAccount"} -> mint_key(0)
      [] ti.kind = "SetAuthority" ->
            IF ti.authority_type = "MintTokens" THEN none ELSE mint_key(0)
      [] ti.kind = "CloseAccount" -> CloseAccountArm(ins, transient)
      [] ti.kind \in {"TransferChecked", "ApproveChecked", "BurnChecked"} ->
            IF PreCheck(ti) THEN none ELSE mint_key(0)
      [] ti.kind = "MintToChecked" ->
            IF PreCheck(ti) THEN none ELSE mint_key(1)

\* A mutant of MetadataKeyPosition: every variant is keyed by account 0.
MetadataKeyPosition_zero(kind) == 0

\* The account position partition_metadata_instruction returns the key of,
\* by variant; -1 for the variants it returns Ok(None) for.
MetadataKeyPosition(kind) ==
    CASE kind \in { "CreateMetadataAccount", "CreateMetadataAccountV2",
                    "UpdateMetadataAccount", "UpdateMetadataAccountV2",
                    "DeprecatedMintNewEditionFromMasterEditionViaPrintingToken",
                    "MintNewEditionFromMasterEditionViaToken",
                    "MintNewEditionFromMasterEditionViaVaultProxy",
                    "SignMetadata", "RemoveCreatorVerification",
                    "VerifyCollection", "SetAndVerifyCollection",
                    "UnverifyCollection", "UpdatePrimarySaleHappenedViaToken",
                    "PuffMetadata", "Utilize" } -> 0
      [] kind = "DeprecatedCreateMasterEdition" -> 7
      [] kind \in { "CreateMasterEdition", "CreateMasterEditionV3",
                    "DeprecatedCreateReservationList",
                    "DeprecatedMintPrintingTokensViaToken",
                    "ApproveUseAuthority", "RevokeUseAuthority" } -> 5
      [] kind \in { "DeprecatedMintPrintingTokens",
                    "RevokeCollectionAuthority" } -> 3
      [] kind = "ApproveCollectionAuthority" -> 4
      [] kind \in { "DeprecatedSetReservationList", "ConvertMasterEditionV1ToV2",
                    "FreezeDelegatedAccount", "ThawDelegatedAccount" } -> -1

\* The Result of the get_account_key calls an arm makes before the one whose
\* key it returns: "Ok", or the first failure.
MetadataSideReads(ins, account_keys, kind) ==
    LET key(i) == get_account_key(ins, account_keys, i) IN
    CASE kind = "DeprecatedMintNewEditionFromMasterEditionViaPrintingToken" ->
            IF key(11).t # "Ok" THEN key(11).t
            ELSE IF key(11).key = TokenProgramId THEN key(10).t ELSE "Ok"
      [] kind = "MintNewEditionFromMasterEditionViaToken" -> key(10).t
      [] kind = "MintNewEditionFromMasterEditionViaVaultProxy" -> key(12).t
      [] OTHER -> "Ok"

partition_metadata_instruction(ins, account_keys, metas, transient) ==
    LET dec == DecodeMetadata(ins.data) IN
    IF ~IsSome(dec)
    THEN PRet("FailedInstructionDeserialization", None, transient, None)
    ELSE
    LET kind == dec[1].kind
        pos == MetadataKeyPosition(kind)
        side == MetadataSideReads(ins, account_keys, kind)
    IN  IF pos < 0 THEN PRet("Ok", None, transient, None)
        ELSE IF side # "Ok" THEN PRet(side, None, transient, None)
        ELSE LET k == get_account_key(ins, account_keys, pos)
             IN  IF k.t # "Ok" THEN PRet(k.t, None, transient, None)
                 ELSE PRet("Ok", Some(k.key), transient, None)

\* The partitioners of the partition command (chocolatier/src/main.rs).
Partitioners ==
    << [program_id |-> TokenProgramId, partitioner |-> "token"],
       [program_id |-> MetadataProgramId, partitioner |-> "metadata"] >>

\* A mutant of partition_instruction: an instruction of a program with no
\* partitioner is handed to the first partitioner of the registry.
partition_instruction_first(ins, account_keys, metas, transient, partitioners) ==
    IF ins.program_id_index >= Len(account_keys)
    THEN [found |-> FALSE, program_id |-> DefaultKey,
          ret |-> PRet("BadAccountKeyIndex", None, transient, None)]
    ELSE
    LET program_id == account_keys[ins.program_id_index + 1]
        hits == {i \in 1..Len(partitioners) :
                    partitioners[i].program_id = program_id}
        p == IF hits = {} THEN partitioners[1]
             ELSE partitioners[CHOOSE i \in hits : \A j \in hits : i <= j]
    IN  [found |-> TRUE, program_id |-> program_id,
         ret |-> IF p.partitioner = "token"
                 THEN partition_token_instruction(
                          ins, account_keys, metas, transient)
                 ELSE partition_metadata_instruction(
                          ins, account_keys, metas, transient)]

\* try_partition_instruction up to the push: the partitioner's return, with
\* the program key; `found` tells whether a partitioner was registered.
partition_instruction(ins, account_keys, metas, transient, partitioners) ==
    IF ins.program_id_index >= Len(account_keys)
    THEN [found |-> FALSE, program_id |-> DefaultKey,
          ret |-> PRet("BadAccountKeyIndex", None, transient, None)]
    ELSE
    LET program_id == account_keys[ins.program_id_index + 1]
        hits == {i \in 1..Len(partitioners) :
                    partitioners[i].program_id = program_id}
    IN  IF hits = {}
        THEN [found |-> FALSE, program_id |-> program_id,
              ret |-> PRet("Ok", None, transient, None)]
        ELSE LET p == partitioners[CHOOSE i \in hits : \A j \in hits : i <= j]
             IN  [found |-> TRUE, program_id |-> program_id,
                  ret |-> IF p.partitioner = "token"
                          THEN partition_token_instruction(
                                   ins, account_keys, metas, transient)
                          ELSE partition_metadata_instruction(
                                   ins, account_keys, metas, transient)]

----------------------------------------------------------------------------
(* The transactions of the model.                                           *)

\* Bounds: a transaction of the driver family has at most MaxOuter outer
\* instructions.
MaxOuter == 2

\* StringAmount values, as bytes: "0", "1", "2", "10".
Amt0 == <<48>>
Amt1 == <<49>>
Amt2 == <<50>>
Amt10 == <<49, 48>>

Bal(account, mint, decimals, amount) ==
    [account_index |-> Idx(account), mint |-> mint, decimals |-> decimals,
     amount |-> amount]

Balances(pre, post) == [pre |-> pre, post |-> post]

\* TokenAcct1 holds an NFT of MintA.
NftBalances ==
    Balances(<<Bal("TokenAcct1", "MintA", 0, Amt0)>>,
             <<Bal("TokenAcct1", "MintA", 0, Amt1)>>)

\* TokenAcct1 holds an NFT of MintA; TokenAcct2 holds two tokens of MintB.
NftAndPairBalances ==
    Balances(<<Bal("TokenAcct2", "MintB", 0, Amt1),
               Bal("TokenAcct1", "MintA", 0, Amt1)>>,
             <<Bal("TokenAcct1", "MintA", 0, Amt0),
               Bal("TokenAcct2", "MintB", 0, Amt2)>>)

DriverBalances == { Balances(<<>>, <<>>), NftBalances, NftAndPairBalances }

WideBalances ==
    DriverBalances \cup
    { \* TokenAcct2 holds a fungible token (decimals 9)
      Balances(<<Bal("TokenAcct1", "MintA", 0, Amt1)>>,
               <<Bal("TokenAcct2", "MintB", 9, Amt1)>>),
      \* TokenAcct2 ends with ten tokens, TokenAcct1 appears only before
      Balances(<<Bal("TokenAcct1", "MintA", 0, Amt1),
                 Bal("TokenAcct2", "MintB", 0, Amt0)>>,
               <<Bal("TokenAcct2", "MintB", 0, Amt10)>>),
      \* a mint string that does not decode
      Balances(<<Bal("TokenAcct1", BadMintString, 0, Amt1)>>, <<>>),
      \* entries for one account that disagree on mint and decimals:
      \* TokenAcct1 twice before and once after, TokenAcct2 twice after
      Balances(<<Bal("TokenAcct1", "MintA", 0, Amt0),
                 Bal("TokenAcct1", "MintB", 9, Amt1)>>,
               <<Bal("TokenAcct2", "MintB", 9, Amt10),
                 Bal("TokenAcct1", "MintB", 9, Amt2),
                 Bal("TokenAcct2", "MintA", 0, Amt1)>>) }

TokenAccounts == {"TokenAcct1", "TokenAcct2"}

\* Token instructions, all variants; t is the token account the instruction
\* is about.
TokenInstructionsOn(t) ==
    { TokenIns(Accts(4, (0 :> t) @@ (1 :> "MintA")), TokenData(k))
        : k \in {"InitializeAccount", "InitializeAccount2"} }
    \cup
    { TokenIns(Accts(3, 0 :> t),
               [enc |-> "token", kind |-> k, amount |-> a])
        : k \in {"Transfer", "Approve", "Burn"}, a \in {0, 1, 2} }
    \cup
    { TokenIns(Accts(3, (0 :> "MintA") @@ (1 :> t)),
               [enc |-> "token", kind |-> "MintTo", amount |-> a])
        : a \in {1, 2} }
    \cup
    { TokenIns(Accts(3, 0 :> t), TokenData(k))
        : k \in {"Revoke", "FreezeAccount", "ThawAccount", "CloseAccount"} }
    \cup
    { TokenIns(Accts(2, 0 :> t),
               [enc |-> "token", kind |-> "SetAuthority", authority_type |-> a])
        : a \in {"MintTokens", "AccountOwner", "CloseAccount"} }
    \cup
    { TokenIns(Accts(4, 0 :> t),
               [enc |-> "token", kind |-> k, amount |-> ad[1], decimals |-> ad[2]])
        : k \in {"TransferChecked", "ApproveChecked", "BurnChecked"},
          ad \in {<<1, 0>>, <<2, 0>>, <<1, 9>>} }
    \cup
    { TokenIns(Accts(3, (0 :> "MintA") @@ (1 :> t)),
               [enc |-> "token", kind |-> "MintToChecked",
                amount |-> ad[1], decimals |-> ad[2]])
        : ad \in {<<1, 0>>, <<2, 0>>, <<1, 9>>} }

TokenInstructionsPlain ==
    { TokenIns(Accts(2, 0 :> "MintA"),
               [enc |-> "token", kind |-> "InitializeMint", decimals |-> d])
        : d \in {0, 9} }
    \cup
    { TokenIns(Accts(2, 0 :> "TokenAcct1"), TokenData(k))
        : k \in {"InitializeMultisig", "SyncNative"} }

\* Every metadata variant, with the accounts a well-formed instruction has.
MetadataInstructionsAll ==
    CreateInstructions \cup UpdateInstructions \cup MasterEditionInstructions
    \cup MintEditionInstructions \cup VerifyInstructions
    \cup { MetaIns(MetaAccts((0 :> "PdaA") @@ (3 :> "PdaB") @@ (4 :> "Collection1")
                             @@ (5 :> "MasterA")), MetaData(k))
             : k \in MetadataNoOps }
    \cup { \* the layout before the master metadata account moved to 11
           MetaIns(MetaAccts((0 :> "PdaA") @@ (10 :> "MasterA")
                             @@ (11 :> TokenProgramId)),
                   MetaData("DeprecatedMintNewEditionFromMasterEditionViaPrintingToken")) }

\* Instructions that are skipped or fail before a key is computed.
MalformedInstructions ==
    { Ins(Idx("OtherProgram"), <<>>, TokenData("Revoke")),
      Ins(BadIndex, <<>>, TokenData("Revoke")),
      TokenIns(<<>>, MetaData("PuffMetadata")),
      MetaIns(<<>>, TokenData("Revoke")),
      \* accounts lists shorter than the position read
      TokenIns(<<>>, TokenData("Revoke")),
      TokenIns(<<>>, TokenData("CloseAccount")),
      TokenIns(<<Idx("TokenAcct2")>>, TokenData("InitializeAccount")),
      TokenIns(<<>>, [enc |-> "token", kind |-> "Transfer", amount |-> 2]),
      MetaIns(<<>>, MetaData("SignMetadata")),
      \* account indices outside account_keys
      TokenIns(<<BadIndex>>, [enc |-> "token", kind |-> "InitializeMint",
                              decimals |-> 0]),
      TokenIns(<<Idx("TokenAcct2"), BadIndex>>, TokenData("InitializeAccount")),
      MetaIns(<<BadIndex>>, MetaData("SignMetadata")) }

WideInstructions ==
    UNION { TokenInstructionsOn(t) : t \in TokenAccounts }
    \cup TokenInstructionsPlain \cup MetadataInstructionsAll
    \cup MalformedInstructions

\* The instructions of the driver family.
DrvInit == TokenIns(Accts(4, (0 :> "TokenAcct2") @@ (1 :> "MintB")),
                    TokenData("InitializeAccount"))
DrvClose == TokenIns(Accts(3, 0 :> "TokenAcct2"), TokenData("CloseAccount"))
DrvTransfer == TokenIns(Accts(3, (0 :> "TokenAcct1") @@ (1 :> "TokenAcct2")),
                        [enc |-> "token", kind |-> "Transfer", amount |-> 1])
DrvMint == TokenIns(Accts(2, 0 :> "MintA"),
                    [enc |-> "token", kind |-> "InitializeMint", decimals |-> 0])
DrvOther == Ins(Idx("OtherProgram"), <<>>, TokenData("Revoke"))
DrvRevoke == TokenIns(Accts(3, 0 :> "TokenAcct2"), TokenData("Revoke"))
DrvSign == MetaIns(MetaAccts((0 :> "PdaA") @@ (1 :> "Creator1")),
                   MetaData("SignMetadata"))

DriverOuter == {DrvInit, DrvClose, DrvTransfer, DrvMint, DrvOther, DrvSign}
DriverInner == {DrvInit, DrvClose, DrvMint}

\* Sequences over S of length lo..hi.
SeqsOf(S, lo, hi) == UNION { [1..n -> S] : n \in lo..hi }

Group(index, instructions) == [index |-> index, instructions |-> instructions]

\* status_meta.inner_instructions of the driver family: no group, one group,
\* or two groups in increasing, decreasing or equal order of index.  Index 7
\* is the index of no outer instruction.
DriverInnerLists ==
    { <<>> }
    \cup { <<Group(o, s)>> : o \in {0, 1, 7},
                             s \in SeqsOf(DriverInner, 1, 1)
                                   \cup {<<DrvInit, DrvClose>>, <<DrvMint, DrvMint>>} }
    \cup { <<Group(oo[1], <<i>>), Group(oo[2], <<j>>)>>
             : oo \in {<<0, 1>>, <<1, 0>>, <<0, 0>>},
               i \in {DrvInit, DrvMint}, j \in {DrvClose, DrvMint} }

\* A TransactionWithStatusMeta: the message's account keys and instructions,
\* and the status meta (Option).
Tx(outer, status) ==
    [account_keys |-> AccountKeys, outer |-> outer, status |-> status]

StatusMeta(failed, bal, inner) ==
    [failed |-> failed, pre_token_balances |-> bal.pre,
     post_token_balances |-> bal.post, inner_instructions |-> inner]

DriverTxs ==
    { Tx(o, Some(StatusMeta(FALSE, b, g)))
        : o \in SeqsOf(DriverOuter, 0, MaxOuter),
          b \in DriverBalances, g \in DriverInnerLists }

WideTxs ==
    { Tx(<<i>>, Some(StatusMeta(FALSE, b, <<>>)))
        : i \in WideInstructions, b \in WideBalances }

\* Transactions that failed on chain, and one without status meta.
FailedTxs ==
    { Tx(<<i>>, Some(StatusMeta(TRUE, NftBalances, <<>>)))
        : i \in {DrvInit, DrvTransfer, DrvMint, DrvOther} }

NoMetaTx == Tx(<<DrvMint>>, None)

\* Transactions without token balances that initialize TokenAcct2, apply a
\* token instruction to one of the token accounts, close TokenAcct2 and
\* apply the same instruction again.
OverlayTxs ==
    { Tx(<<DrvInit, x, DrvClose, x>>, Some(StatusMeta(FALSE, Balances(<<>>, <<>>), <<>>)))
        : x \in UNION { TokenInstructionsOn(t) : t \in TokenAccounts } }

TxSet == DriverTxs \cup WideTxs \cup FailedTxs \cup {NoMetaTx} \cup OverlayTxs

----------------------------------------------------------------------------
(* partition_transaction as a state machine.                                *)
(* pc: "idle" (not called), "start" (called, nothing done), "outer" (at the  *)
(* head of the for loop over the outer instructions), "inner" (inside the   *)
(* loop over an inner group), "outer_ins" (about to partition the outer     *)
(* instruction itself), "done" (returned, or panicked).                     *)

\* transaction.get_status_meta().map(|m| m.status.is_err()) == Some(true)
StatusIsErr(t) == IsSome(t.status) /\ t.status[1].failed

\* A mutant of NewOverlay: the overlay is one vector shared by all calls.
NewOverlay_shared(previous) == previous

\* `let mut transient_metas = vec![];`: each call makes its own overlay,
\* whatever the overlay of the call before it (`previous`) held when that
\* call returned.
NewOverlay(previous) == <<>>

\* The entry of partition_transaction, up to the for loop: the status meta,
\* the balance index, the empty overlay and the iterators.
Begin ==
    /\ pc = "start"
    /\ IF ~IsSome(tx[1].status)
       THEN /\ result' = "MissingTransactionStatusMeta"
            /\ pc' = "done"
            /\ UNCHANGED <<token_metas, transient_metas, partitioned,
                           outer_index, inner_next>>
       ELSE LET index == BuildIndex(tx[1].status[1].pre_token_balances,
                                    tx[1].status[1].post_token_balances)
            IN  IF index.err
                THEN /\ result' = "BadPubkeyString"
                     /\ pc' = "done"
                     /\ UNCHANGED <<token_metas, transient_metas, partitioned,
                                    outer_index, inner_next>>
                ELSE /\ token_metas' \in ValueOrders(index.map)
                     /\ transient_metas' = NewOverlay(transient_metas)
                     /\ partitioned' = <<>>
                     /\ outer_index' = 0
                     /\ inner_next' = 1
                     /\ pc' = "outer"
                     /\ UNCHANGED result
    /\ UNCHANGED <<tx, inner_group, inner_index, plast, run, cmd>>

\* A mutant of IterationOrder: the outer instruction is partitioned before
\* its inner group.
IterationOrder_outer_first == <<"outer_ins", "inner">>

\* The body of the for loop: first the inner group of this outer index, then
\* the outer instruction.
IterationOrder == <<"inner", "outer_ins">>

\* Where the loop body goes after `phase`: to its second phase, or back to
\* the head of the loop.
After(phase) == IF IterationOrder[1] = phase THEN IterationOrder[2] ELSE "outer"

\* A mutant of FinishResult: the overlay is not checked.
FinishResult_unchecked(transient) == "Ok"

\* `if transient_metas.len() != 0 { return Err(...) }  Ok(partitioned)`
FinishResult(transient) ==
    IF Len(transient) # 0 THEN "FailedTransientTokenAccountMatching" ELSE "Ok"

\* The try_partition_instruction calls this run of partition_transaction has
\* made, oldest first.
PastCalls == IF IsSome(plast) THEN plast[1].calls ELSE <<>>

\* A try_partition_instruction call: its outer_index and inner_index
\* arguments, and the inner group (its position in inner_instructions,
\* 1-based) the instruction was taken from, 0 for an outer instruction.
CallOf(o, i) ==
    [outer_index |-> o, inner_index |-> i,
     group |-> IF IsSome(i) THEN inner_next - 1 ELSE 0]

\* A mutant of TryPartition: an error of the partitioner is dropped and the
\* loop goes on.
TryPartition_swallow(ins, o, i, next) ==
    LET p == partition_instruction(ins, tx[1].account_keys, token_metas,
                                   transient_metas, Partitioners)
        r == p.ret
    IN  /\ plast' = Some([instruction |-> ins, outer_index |-> o,
                          inner_index |-> i, found |-> p.found,
                          result |-> r.result, key |-> r.key, meta |-> r.meta,
                          overlay_before |-> transient_metas,
                          calls |-> Append(PastCalls, CallOf(o, i))])
        /\ transient_metas' = r.transient
        /\ partitioned' =
             IF r.result = "Ok" /\ IsSome(r.key)
             THEN Append(partitioned,
                         [instruction |-> ins,
                          partition_key |-> r.key[1],
                          program_key |-> p.program_id,
                          outer_index |-> o,
                          inner_index |-> i])
             ELSE partitioned
        /\ pc' = next
        /\ UNCHANGED result
        /\ outer_index' = IF pc' = "outer" THEN outer_index + 1 ELSE outer_index

\* try_partition_instruction(instruction, outer_index, inner_index); `next`
\* is where the driver is after an Ok return.
TryPartition(ins, o, i, next) ==
    LET p == partition_instruction(ins, tx[1].account_keys, token_metas,
                                   transient_metas, Partitioners)
        r == p.ret
    IN  /\ plast' = Some([instruction |-> ins, outer_index |-> o,
                          inner_index |-> i, found |-> p.found,
                          result |-> r.result, key |-> r.key, meta |-> r.meta,
                          overlay_before |-> transient_metas,
                          calls |-> Append(PastCalls, CallOf(o, i))])
        /\ transient_metas' = r.transient
        /\ IF r.result = "Ok"
           THEN /\ partitioned' =
                     IF IsSome(r.key)
                     THEN Append(partitioned,
                                 [instruction |-> ins,
                                  partition_key |-> r.key[1],
                                  program_key |-> p.program_id,
                                  outer_index |-> o,
                                  inner_index |-> i])
                     ELSE partitioned
                /\ pc' = next
                /\ UNCHANGED result
           ELSE /\ result' = r.result
                /\ pc' = "done"
                /\ UNCHANGED partitioned
        /\ outer_index' = IF pc' = "outer" THEN outer_index + 1 ELSE outer_index

\* A mutant of GroupMatches: no group is ever taken.
GroupMatches_never(inner, next, o) == FALSE

\* `if let Some(inner) = &inner_instructions_iter.peek()` and
\* `if usize::from(inner.index) == outer_index`: the iterator, at position
\* `next`, has a group left and its index is the outer index o.
GroupMatches(inner, next, o) ==
    /\ next <= Len(inner)
    /\ inner[next].index = o

\* The head of one iteration of the for loop: peek at the inner groups, and
\* take the next group when its index is this outer index.
PeekInner ==
    /\ pc = "outer"
    /\ outer_index < Len(tx[1].outer)
    /\ LET inner == tx[1].status[1].inner_instructions
           matched == GroupMatches(inner, inner_next, outer_index)
       IN  /\ inner_group' = IF matched THEN Some(inner[inner_next]) ELSE None
           /\ inner_next' = IF matched THEN inner_next + 1 ELSE inner_next
           /\ inner_index' = 0
           /\ pc' = IF matched /\ Len(inner[inner_next].instructions) > 0
                    THEN IterationOrder[1] ELSE "outer_ins"
    /\ UNCHANGED <<tx, token_metas, transient_metas, partitioned, result,
                   outer_index, plast, run, cmd>>

\* One iteration of the loop over inner.instructions (no iteration when no
\* group was taken).
InnerStep ==
    /\ pc = "inner"
    /\ IF IsSome(inner_group) /\ inner_index < Len(inner_group[1].instructions)
       THEN /\ TryPartition(inner_group[1].instructions[inner_index + 1],
                            outer_index, Some(inner_index),
                            IF inner_index + 1 = Len(inner_group[1].instructions)
                            THEN After("inner") ELSE "inner")
            /\ inner_index' = inner_index + 1
       ELSE /\ pc' = After("inner")
            /\ outer_index' = IF pc' = "outer" THEN outer_index + 1
                              ELSE outer_index
            /\ UNCHANGED <<transient_metas, partitioned, result, plast,
                           inner_index>>
    /\ UNCHANGED <<tx, token_metas, inner_next, inner_group, run, cmd>>

\* The outer instruction itself, with inner_index = None.
OuterStep ==
    /\ pc = "outer_ins"
    /\ TryPartition(tx[1].outer[outer_index + 1], outer_index, None,
                    After("outer_ins"))
    /\ UNCHANGED <<tx, token_metas, inner_next, inner_group, inner_index,
                   run, cmd>>

\* After the loop: the overlay must be empty.
Finish ==
    /\ pc = "outer"
    /\ outer_index = Len(tx[1].outer)
    /\ result' = FinishResult(transient_metas)
    /\ pc' = "done"
    /\ UNCHANGED <<tx, token_metas, transient_metas, partitioned, outer_index,
                   inner_next, inner_group, inner_index, plast, run, cmd>>

\* What a caller of partition_transaction sees.
Outcome ==
    [result |-> result,
     partitioned |-> IF result = "Ok" THEN partitioned ELSE <<>>]

\* partition_transaction is called a second time on the same transaction.
\* The overlay of the call that returned is kept as that call left it: the
\* next call makes its own (NewOverlay).
Rerun ==
    /\ pc = "done"
    /\ run.n = 1
    /\ result # "Panic"
    /\ run' = [n |-> 2, first |-> Some(Outcome), order |-> token_metas]
    /\ pc' = "start"
    /\ token_metas' = <<>>
    /\ partitioned' = <<>>
    /\ result' = "None"
    /\ outer_index' = 0
    /\ inner_next' = 0
    /\ inner_group' = None
    /\ inner_index' = 0
    /\ plast' = None
    /\ UNCHANGED <<tx, transient_metas, cmd>>

----------------------------------------------------------------------------
(* The partition command: fn partition of chocolatier/src/main.rs.          *)
(* cmd is None when the command does not run, else Some of                   *)
(*   input        the rows of the transactions table, in the order read     *)
(*   next         how many rows `it.next()` has yielded                     *)
(*   partitions   the rows inserted into partitions                         *)
(*   account_keys the signatures inserted into account_keys                 *)
(*   warnings     the (signature, error) pairs logged with warn!            *)

\* Bound: the transactions table holds at most MaxRows rows.
MaxRows == 2

\* A mutant of SkipRow: no row is skipped.
SkipRow_never(row) == FALSE

\* `if transaction.get_status_meta().map(|m| m.status.is_err()) == Some(true)
\*  { continue; }`
SkipRow(row) == StatusIsErr(row.transaction)

\* `while let Some(row) = it.next()?`: the next row is read; it is skipped, or
\* partition_transaction is called on its transaction.
CmdRow ==
    /\ IsSome(cmd)
    /\ pc = "idle"
    /\ cmd[1].next < Len(cmd[1].input)
    /\ LET row == cmd[1].input[cmd[1].next + 1]
       IN  /\ cmd' = Some([cmd[1] EXCEPT !.next = @ + 1])
           /\ IF SkipRow(row)
              THEN UNCHANGED <<tx, pc>>
              ELSE /\ tx' = Some(row.transaction)
                   /\ pc' = "start"
    /\ UNCHANGED <<token_metas, transient_metas, partitioned, result,
                   outer_index, inner_next, inner_group, inner_index, plast, run>>

\* `match partition_transaction(transaction, &partitioners)`: the rows are
\* written on Ok, the error is logged on Err, and the loop goes on.  The
\* overlay of the call that returned is kept as that call left it.
CmdResult ==
    /\ IsSome(cmd)
    /\ pc = "done"
    /\ result # "Panic"
    /\ LET row == cmd[1].input[cmd[1].next]
           written ==
             [i \in 1..Len(partitioned) |->
                [partition_key |-> partitioned[i].partition_key,
                 program_key |-> partitioned[i].program_key,
                 slot |-> row.slot,
                 block_index |-> row.block_index,
                 outer_index |-> partitioned[i].outer_index,
                 inner_index |-> partitioned[i].inner_index,
                 signature |-> row.signature,
                 instruction |-> partitioned[i].instruction]]
       IN  cmd' = Some(
             IF result = "Ok"
             THEN [cmd[1] EXCEPT
                     !.account_keys = IF Len(partitioned) # 0
                                      THEN Append(@, row.signature) ELSE @,
                     !.partitions = @ \o written]
             ELSE [cmd[1] EXCEPT
                     !.warnings = Append(@, [signature |-> row.signature,
                                             error |-> result])])
    /\ pc' = "idle"
    /\ tx' = None
    /\ token_metas' = <<>>
    /\ partitioned' = <<>>
    /\ result' = "None"
    /\ outer_index' = 0
    /\ inner_next' = 0
    /\ inner_group' = None
    /\ inner_index' = 0
    /\ plast' = None
    /\ UNCHANGED <<transient_metas, run>>

\* The transactions of the command's table.
CmdTxs ==
    { Tx(<<i>>, Some(StatusMeta(f, NftBalances, <<>>)))
        : i \in {DrvInit, DrvTransfer, DrvOther}, f \in BOOLEAN }
    \cup { Tx(<<DrvRevoke>>, Some(StatusMeta(FALSE, NftBalances, <<>>))),
           \* one instruction is classified, then two fail, each its own way
           Tx(<<DrvMint, DrvRevoke,
                Ins(BadIndex, <<>>, TokenData("Revoke"))>>,
              Some(StatusMeta(FALSE, NftBalances, <<>>))),
           NoMetaTx }

\* The table: row r (1-based) is at slot r, with signature r.
CmdInputs ==
    { [r \in 1..n |-> [slot |-> r, block_index |-> 0, signature |-> r,
                       transaction |-> txs[r]]]
        : n \in {MaxRows}, txs \in [1..MaxRows -> CmdTxs] }

\* The state of partition_transaction and of the partition command when
\* neither runs.
PartIdle ==
    /\ tx = None
    /\ pc = "idle"
    /\ token_metas = <<>>
    /\ transient_metas = <<>>
    /\ partitioned = <<>>
    /\ result = "None"
    /\ outer_index = 0
    /\ inner_next = 0
    /\ inner_group = None
    /\ inner_index = 0
    /\ plast = None
    /\ run = [n |-> 0, first |-> None, order |-> <<>>]
    /\ cmd = None

Init == AsmInit /\ PartIdle /\ rsm = None /\ fch = None

Next == \E call \in CoreCalls : Update(call) /\ UNCHANGED <<part_vars, cmd, rsm, fch>>

\* The assembler: any sequence of Bonbon.update calls on one fresh Bonbon.
Spec == Init /\ [][Next]_vars

NextToken == \E call \in TokenCalls : Update(call) /\ UNCHANGED <<part_vars, cmd, rsm, fch>>

\* The assembler fed token instructions only, each with its owners.
SpecToken == Init /\ [][NextToken]_vars

\* The calls of SpecFrame: the instructions of CoreCalls that do not name
\* MintB or its metadata account, without owners, and the token
\* instructions with no owners or one owner per token account.
FrameCalls ==
    { Call(c.ins, <<>>) :
        c \in {x \in CoreCalls :
                 \A p \in 1..Len(x.ins.accounts) :
                    x.ins.accounts[p] \notin {Idx("MintB"), Idx("PdaB")}} }
    \cup
    { Call(i, o) : i \in MoveInstructions \cup TokenOtherInstructions,
                   o \in { <<>>,
                           <<Own(Idx("TokenAcct1"), "Owner2"),
                             Own(Idx("TokenAcct2"), "Owner1")>> } }

NextFrame == \E call \in FrameCalls : Update(call) /\ UNCHANGED <<part_vars, cmd, rsm, fch>>

\* The assembler fed metadata and token instructions of one mint, the token
\* instructions with their owners.
SpecFrame == Init /\ [][NextFrame]_vars

\* The creators and collection a CreateMetadataAccountV2 may carry: no
\* creator, one, or three of which the last two have the same address.
CreatorLists ==
    { None,
      Some(<<Creator1U>>),
      Some(<<[address |-> "Creator2", verified |-> FALSE, share |-> 20],
             [address |-> "Creator1", verified |-> FALSE, share |-> 50],
             [address |-> "Creator1", verified |-> FALSE, share |-> 30]>>) }

\* The glazing of a Bonbon before any verification: empty, or the one
\* snapshot a CreateMetadataAccountV2 pushed.
StartGlazings ==
    { <<>> }
    \cup { <<[uri |-> "uri1", creators |-> from_creators(cs),
              collection |-> MapCollection(col)]>>
             : cs \in CreatorLists, col \in {None, Some(Collection1U)} }

InitGlazing ==
    /\ \E g \in StartGlazings :
          bonbon = IF g = <<>> THEN DefaultBonbon
                   ELSE [DefaultBonbon EXCEPT !.metadata_key = "PdaA",
                                              !.glazing = g]
    /\ last = [op |-> "none", key |-> DefaultKey, verified |-> FALSE]
    /\ meta_set = None
    /\ edition_mint = None
    /\ moved = [account |-> None, owner |-> None]
    /\ PartIdle
    /\ rsm = None /\ fch = None

\* bonbon.apply_creator_verification(creator_key, verified)
ApplyCreatorVerification ==
    /\ Len(bonbon.glazing) < MaxGlazing
    /\ \E creator_key \in {"Creator1", "Creator2", "Creator3"}, verified \in BOOLEAN :
          /\ bonbon' = [bonbon EXCEPT !.glazing =
                           apply_creator_verification(@, creator_key, verified)]
          /\ last' = [op |-> "apply_creator_verification", key |-> creator_key,
                      verified |-> verified]
    /\ UNCHANGED <<meta_set, edition_mint, moved, part_vars, cmd, rsm, fch>>

\* bonbon.apply_collection_verification(collection_key, verified)
ApplyCollectionVerification ==
    /\ Len(bonbon.glazing) < MaxGlazing
    /\ \E collection_key \in {"Collection1", "Collection2"}, verified \in BOOLEAN :
          /\ bonbon' = [bonbon EXCEPT !.glazing =
                           apply_collection_verification(@, collection_key, verified)]
          /\ last' = [op |-> "apply_collection_verification",
                      key |-> collection_key, verified |-> verified]
    /\ UNCHANGED <<meta_set, edition_mint, moved, part_vars, cmd, rsm, fch>>

NextGlazing == ApplyCreatorVerification \/ ApplyCollectionVerification

\* The two verification methods of Bonbon, called in any order on a Bonbon
\* that has no snapshot or one.
SpecGlazing == InitGlazing /\ [][NextGlazing]_vars

\* partition_transaction called on one transaction, and then once more on the
\* same transaction.
InitDirect ==
    /\ tx \in {Some(t) : t \in TxSet}
    /\ pc = "start"
    /\ run = [n |-> 1, first |-> None, order |-> <<>>]
    /\ cmd = None

\* The partition command started on a table of transactions.
InitCommand ==
    /\ tx = None
    /\ pc = "idle"
    /\ run = [n |-> 0, first |-> None, order |-> <<>>]
    /\ cmd \in { Some([input |-> t, next |-> 0, partitions |-> <<>>,
                       account_keys |-> <<>>, warnings |-> <<>>])
                   : t \in CmdInputs }

InitPartition ==
    /\ AsmInit
    /\ InitDirect \/ InitCommand
    /\ token_metas = <<>>
    /\ transient_metas = <<>>
    /\ partitioned = <<>>
    /\ result = "None"
    /\ outer_index = 0
    /\ inner_next = 0
    /\ inner_group = None
    /\ inner_index = 0
    /\ plast = None
    /\ rsm = None /\ fch = None

NextPartition ==
    \/ Begin /\ UNCHANGED <<asm_vars, rsm, fch>>
    \/ PeekInner /\ UNCHANGED <<asm_vars, rsm, fch>>
    \/ InnerStep /\ UNCHANGED <<asm_vars, rsm, fch>>
    \/ OuterStep /\ UNCHANGED <<asm_vars, rsm, fch>>
    \/ Finish /\ UNCHANGED <<asm_vars, rsm, fch>>
    \/ Rerun /\ UNCHANGED <<asm_vars, rsm, fch>>
    \/ CmdRow /\ UNCHANGED <<asm_vars, rsm, fch>>
    \/ CmdResult /\ UNCHANGED <<asm_vars, rsm, fch>>

\* The partitioner: partition_transaction called directly on any transaction,
\* and the partition command run on a table of transactions.
SpecPartition == InitPartition /\ [][NextPartition]_vars

----------------------------------------------------------------------------
(* The reassemble command: fn reassemble of chocolatier/src/main.rs.        *)
(* rsm is None when the command does not run, else Some of                   *)
(*   mints     the distinct partition keys of the token program, as read    *)
(*   rows      for each mint, the instructions selected for it, in order    *)
(*   next      how many mints `it.next()` has yielded                       *)
(*   made      the (mint, bonbon) pairs logged with trace!                  *)
(*   failed    the (mint, error) pairs logged with warn!                    *)
(*   returned  "No" while the loop runs, then "Ok", or "Panic"              *)
(* The command hands Bonbon.update no owners; the model passes none.        *)

\* The for loop over the instructions of one mint: Bonbon.update on each row
\* until one returns Err.  The value is the Bonbon and the Result of the
\* last call made.
RECURSIVE Replay(_, _, _)
Replay(b, rows, i) ==
    IF i > Len(rows) THEN Ret(b, "Ok")
    ELSE LET r == Bonbon_update(b, rows[i], AccountKeys, <<>>, Updaters)
         IN  IF r.result # "Ok" THEN r ELSE Replay(r.bonbon, rows, i + 1)

\* `while let Some(row) = it.next()?`: the next mint is read, its
\* instructions are replayed into a default Bonbon, the outcome is logged,
\* and the `break` that ends the loop body leaves the loop.
ReassembleRow ==
    /\ IsSome(rsm)
    /\ rsm[1].returned = "No"
    /\ rsm[1].next < Len(rsm[1].mints)
    /\ LET mint_key == rsm[1].mints[rsm[1].next + 1]
           r == Replay(DefaultBonbon, rsm[1].rows[mint_key], 1)
       IN  rsm' = Some(
             IF r.result = "Panic"
             THEN [rsm[1] EXCEPT !.next = @ + 1, !.returned = "Panic"]
             ELSE IF r.result # "Ok"
             THEN [rsm[1] EXCEPT !.next = @ + 1, !.returned = "Ok",
                     !.failed = Append(@, [mint_key |-> mint_key,
                                           error |-> r.result])]
             ELSE [rsm[1] EXCEPT !.next = @ + 1, !.returned = "Ok",
                     !.made = Append(@, [mint_key |-> mint_key,
                                         bonbon |-> r.bonbon])])
    /\ UNCHANGED <<asm_vars, part_vars, cmd, fch>>

\* `it.next()?` yields None: the loop ends and the command returns Ok(()).
ReassembleEnd ==
    /\ IsSome(rsm)
    /\ rsm[1].returned = "No"
    /\ rsm[1].next = Len(rsm[1].mints)
    /\ rsm' = Some([rsm[1] EXCEPT !.returned = "Ok"])
    /\ UNCHANGED <<asm_vars, part_vars, cmd, fch>>

\* A mutant of RowLess: NULL sorts before every value.
RowLess_nulls_first(a, b) ==
    \/ a.outer_index < b.outer_index
    \/ /\ a.outer_index = b.outer_index
       /\ \/ ~IsSome(a.inner_index) /\ IsSome(b.inner_index)
          \/ /\ IsSome(a.inner_index) /\ IsSome(b.inner_index)
             /\ a.inner_index[1] < b.inner_index[1]

\* `ORDER BY (slot, block_index, outer_index, inner_index)` on two rows of one
\* transaction (same slot and block_index): row a sorts before row b.  The
\* key is a row value, compared field by field, a NULL inner_index after
\* every value.
RowLess(a, b) ==
    \/ a.outer_index < b.outer_index
    \/ /\ a.outer_index = b.outer_index
       /\ \/ IsSome(a.inner_index) /\ ~IsSome(b.inner_index)
          \/ /\ IsSome(a.inner_index) /\ IsSome(b.inner_index)
             /\ a.inner_index[1] < b.inner_index[1]

\* The rows of one transaction as the SELECT of reassemble returns them: in
\* the order of RowLess (rows that compare equal come in an order the
\* database picks).
RECURSIVE OrderBy(_)
OrderBy(rows) ==
    IF Len(rows) = 0 THEN <<>>
    ELSE LET m == CHOOSE i \in 1..Len(rows) :
                     \A j \in 1..Len(rows) : ~RowLess(rows[j], rows[i])
         IN  <<rows[m]>>
             \o OrderBy([k \in 1..(Len(rows) - 1) |->
                            IF k < m THEN rows[k] ELSE rows[k + 1]])

\* The results of SELECT DISTINCT partition_key: no, one or two mints.
MintLists ==
    { <<>>, <<"MintA">>, <<"MintB">>, <<"MintA", "MintB">>, <<"MintB", "MintA">> }

\* The instructions selected for the mint m, whose metadata account is pda.
RowsFor(m, pda) ==
    LET init == TokenIns(Accts(2, 0 :> m),
                         [enc |-> "token", kind |-> "InitializeMint", decimals |-> 0])
        create(k) == MetaIns(MetaAccts(0 :> k),
                             [enc |-> "metadata", kind |-> "CreateMetadataAccount",
                              uri |-> "uri1", creators |-> Some(<<Creator1U>>)])
        master == MetaIns(MetaAccts(5 :> pda), MetaData("CreateMasterEdition"))
        short == MetaIns(<<>>, MetaData("SignMetadata"))
    IN  { <<init>>, <<init, create(pda)>>, <<init, create(pda), master>>,
          <<init, master, create(pda)>>, <<create(pda), init>>,
          <<init, create(pda), master, master>>, <<init, short>> }

InitReassemble ==
    /\ AsmInit
    /\ PartIdle
    /\ fch = None
    /\ rsm \in { Some([mints |-> l, rows |-> ("MintA" :> ra) @@ ("MintB" :> rb),
                       next |-> 0, made |-> <<>>, failed |-> <<>>,
                       returned |-> "No"])
                   : l \in MintLists,
                     ra \in RowsFor("MintA", "PdaA"),
                     rb \in RowsFor("MintB", "PdaB") }

NextReassemble == ReassembleRow \/ ReassembleEnd

\* The reassemble command run on a partitions table.
SpecReassemble == InitReassemble /\ [][NextReassemble]_vars

----------------------------------------------------------------------------
(* The chunk loop of the fetch command: fn fetch of chocolatier/src/main.rs. *)
(* A Slot is a u64.  The slot s is written as the integer s when s < 2^63    *)
(* and as s - 2^64 otherwise (-1 is u64::MAX), so that the integers near 0   *)
(* stand for the slots at both ends of the u64 range and x + n, x - n on     *)
(* them are the u64 operations modulo 2^64.                                  *)
(* fch is None when the command does not run, else Some of                   *)
(*   block_start, block_end   the parsed --block_range                      *)
(*   overflow_checks          whether the build checks integer overflow     *)
(*   chunk_start              the loop variable                             *)
(*   requests                 the chunks handed to get_confirmed_blocks     *)
(*   returned                 "No" in the loop, then "Ok", "Err" or "Panic"  *)

\* `let chunk_size = 16;`
chunk_size == 16

\* Bounds: block_start and block_end are within MaxSlot of either end of the
\* u64 range, and the loop is followed for at most MaxChunks chunks.
MaxSlot == 20
MaxChunks == 3

\* a < b on u64.
U64Less(a, b) == IF (a >= 0) = (b >= 0) THEN a < b ELSE a >= 0

\* std::cmp::min on u64.
U64Min(a, b) == IF U64Less(b, a) THEN b ELSE a

\* a + n on u64 carries out of 64 bits.
AddOverflows(a, n) == a < 0 /\ a + n >= 0

\* One iteration of `while chunk_start < block_end` whose
\* get_confirmed_blocks call succeeds.  An overflowing
\* `chunk_start + chunk_size` panics in a build with overflow checks and
\* wraps in one without; so does `chunk_end - chunk_start`.
FetchChunk ==
    /\ IsSome(fch)
    /\ fch[1].returned = "No"
    /\ Len(fch[1].requests) < MaxChunks
    /\ U64Less(fch[1].chunk_start, fch[1].block_end)
    /\ LET f == fch[1]
           chunk_end == U64Min(f.chunk_start + chunk_size, f.block_end)
       IN  IF /\ f.overflow_checks
              /\ \/ AddOverflows(f.chunk_start, chunk_size)
                 \/ U64Less(chunk_end, f.chunk_start)
           THEN fch' = Some([f EXCEPT !.returned = "Panic"])
           ELSE fch' = Some([f EXCEPT
                               !.requests =
                                  Append(@, [chunk_start |-> f.chunk_start,
                                             chunk_end |-> chunk_end,
                                             limit |-> chunk_end - f.chunk_start]),
                               !.chunk_start = chunk_end])
    /\ UNCHANGED <<asm_vars, part_vars, cmd, rsm>>

\* `bt.get_confirmed_blocks(..).await?` (or a later `?` of the iteration)
\* returns an error: fetch returns it.
FetchError ==
    /\ IsSome(fch)
    /\ fch[1].returned = "No"
    /\ Len(fch[1].requests) < MaxChunks
    /\ U64Less(fch[1].chunk_start, fch[1].block_end)
    /\ ~(fch[1].overflow_checks /\ AddOverflows(fch[1].chunk_start, chunk_size))
    /\ fch' = Some([fch[1] EXCEPT !.returned = "Err"])
    /\ UNCHANGED <<asm_vars, part_vars, cmd, rsm>>

\* The loop condition is false: fetch returns Ok.
FetchEnd ==
    /\ IsSome(fch)
    /\ fch[1].returned = "No"
    /\ ~U64Less(fch[1].chunk_start, fch[1].block_end)
    /\ fch' = Some([fch[1] EXCEPT !.returned = "Ok"])
    /\ UNCHANGED <<asm_vars, part_vars, cmd, rsm>>

\* The slots --block_range may name: the first MaxSlot and the last MaxSlot
\* of the u64 range.
Slots == (-MaxSlot)..MaxSlot

\* fetch after --block_range was parsed: block_start <= block_end.
InitFetch ==
    /\ AsmInit
    /\ PartIdle
    /\ rsm = None
    /\ fch \in { Some([block_start |-> r[1], block_end |-> r[2],
                       overflow_checks |-> c, chunk_start |-> r[1],
                       requests |-> <<>>, returned |-> "No"])
                   : r \in {x \in Slots \X Slots : ~U64Less(x[2], x[1])},
                     c \in BOOLEAN }

NextFetch == FetchChunk \/ FetchError \/ FetchEnd

\* The chunk loop of fetch on any block range.
SpecFetch == InitFetch /\ [][NextFetch]_vars

----------------------------------------------------------------------------
(* Properties of the assembler, checked under Spec.                         *)

\* s is a prefix of t.
IsPrefix(s, t) ==
    /\ Len(s) <= Len(t)
    /\ \A i \in 1..Len(s) : s[i] = t[i]

\* The call reached the metadata updater with a decodable instruction.
IsMetadataCall(l) ==
    /\ l.ins.program_id_index = Idx(MetadataProgramId)
    /\ l.ins.data.enc = "metadata"

\* C1: edition monotonicity.  Over any sequence of Bonbon.update calls,
\* successful or failing, an edition_status that is Master or Limited is
\* never changed by a call: the only changes are None -> Master and
\* None -> Limited.
EditionMonotonicity ==
    [][bonbon.edition_status # "None"
         => bonbon'.edition_status = bonbon.edition_status]_vars

\* C2: metadata identity.  Once a successful update has set metadata_key to
\* a key other than the default one, every later successful update leaves
\* metadata_key at that value (meta_set remembers the first value set).
MetadataIdentity ==
    (IsSome(meta_set) /\ last.result = "Ok")
        => bonbon.metadata_key = meta_set[1]

\* The successful calls C3 speaks of: a creator or collection verification
\* (each makes one apply_*_verification call), a create, an update with data.
GrowingCall(l) ==
    /\ IsMetadataCall(l)
    /\ l.result = "Ok"
    /\ \/ l.ins.data.kind \in
            { "SignMetadata", "RemoveCreatorVerification", "VerifyCollection",
              "SetAndVerifyCollection", "UnverifyCollection",
              "CreateMetadataAccount", "CreateMetadataAccountV2" }
       \/ /\ l.ins.data.kind \in
               {"UpdateMetadataAccount", "UpdateMetadataAccountV2"}
          /\ IsSome(l.ins.data.data)

\* C3: glazing growth.  Every Bonbon.update call that applies a creator or
\* collection verification, every successful CreateMetadataAccount(V2) and
\* every successful UpdateMetadataAccount(V2) that carries data makes glazing
\* longer by exactly one, and no Bonbon.update call makes glazing shorter.
GlazingGrowth ==
    [][/\ GrowingCall(last')
            => Len(bonbon'.glazing) = Len(bonbon.glazing) + 1
       /\ Len(bonbon'.glazing) >= Len(bonbon.glazing)]_vars

\* A creator verification has been applied on top of an earlier snapshot.
GlazingGrowthWitness ==
    /\ GrowingCall(last)
    /\ last.ins.data.kind \in {"SignMetadata", "RemoveCreatorVerification"}
    /\ Len(bonbon.glazing) = 2

\* C4: glazing is append-only.  For every Bonbon.update call, successful or
\* failing, the glazing before the call is a prefix of the glazing after it.
GlazingAppendOnly ==
    [][IsPrefix(bonbon.glazing, bonbon'.glazing)]_vars

\* A collection verification has been applied on top of an earlier snapshot
\* that it left in place.
GlazingAppendOnlyWitness ==
    /\ GrowingCall(last)
    /\ last.ins.data.kind \in {"VerifyCollection", "SetAndVerifyCollection",
                               "UnverifyCollection"}
    /\ Len(bonbon.glazing) = 2
    /\ bonbon.glazing[1].collection # bonbon.glazing[2].collection

----------------------------------------------------------------------------
(* Properties of the partitioner, checked under SpecPartition.              *)

\* partition_transaction has returned.
Returned == pc = "done"

\* partition_transaction reached the end of its loop: it got past the status
\* meta and the balance index, and no try_partition_instruction call failed.
LoopCompleted ==
    /\ Returned
    /\ result \notin {"MissingTransactionStatusMeta", "BadPubkeyString"}
    /\ plast # None => plast[1].result = "Ok"

\* C5: transient balance.  Whenever partition_transaction returns Ok the
\* transient overlay is empty; and when every instruction was partitioned
\* without error and the overlay still holds an entry after the last one,
\* partition_transaction returns Err(FailedTransientTokenAccountMatching).
TransientBalance ==
    /\ (Returned /\ result = "Ok") => transient_metas = <<>>
    /\ (LoopCompleted /\ transient_metas # <<>>)
          => result = "FailedTransientTokenAccountMatching"

\* A transaction whose instructions all partitioned has returned with an
\* account left in the overlay.
TransientBalanceWitness ==
    /\ LoopCompleted
    /\ Len(transient_metas) > 0
    /\ result = "FailedTransientTokenAccountMatching"

\* C6: inner-before-outer.  In the sequence partition_transaction emits, of
\* two entries with the same outer_index, the one with inner_index = Some(_)
\* comes before the one with inner_index = None.
InnerBeforeOuter ==
    \A i, j \in 1..Len(partitioned) :
        ( /\ partitioned[i].outer_index = partitioned[j].outer_index
          /\ IsSome(partitioned[i].inner_index)
          /\ partitioned[j].inner_index = None )
        => i < j

\* partition_transaction returned Ok a sequence that holds an inner entry
\* and the outer entry of the same outer index.
InnerBeforeOuterWitness ==
    /\ Returned
    /\ result = "Ok"
    /\ \E i, j \in 1..Len(partitioned) :
          /\ partitioned[i].outer_index = partitioned[j].outer_index
          /\ IsSome(partitioned[i].inner_index)
          /\ partitioned[j].inner_index = None

\* C7: order determinism.  Two runs of partition_transaction on the same
\* transaction with the same partitioners return the same Result and, on Ok,
\* the same sequence, whatever order the values of the balance map came out
\* in on each run.
OrderDeterminism ==
    (run.n = 2 /\ Returned) => Outcome = run.first[1]

\* The second run has returned Ok a non-empty sequence, and the two runs had
\* their token_metas in different orders.
OrderDeterminismWitness ==
    /\ run.n = 2
    /\ Returned
    /\ result = "Ok"
    /\ partitioned # <<>>
    /\ Len(token_metas) >= 2
    /\ token_metas # run.order

\* The last try_partition_instruction call went to partition_token_instruction
\* and returned Ok(Some(_)) from a TransactionTokenMeta, i.e. from any arm
\* but InitializeMint, which returns the account key at position 0.
KeyFromTokenMeta ==
    /\ IsSome(plast)
    /\ plast[1].found
    /\ tx[1].account_keys[plast[1].instruction.program_id_index + 1] = TokenProgramId
    /\ plast[1].result = "Ok"
    /\ IsSome(plast[1].key)
    /\ plast[1].instruction.data.kind # "InitializeMint"

\* The amount is absent, or the one-character string "0" or "1".
AbsentOrZeroOrOne(amount) == amount \in {None, Some(Amt0), Some(Amt1)}

\* C8: NFT heuristic.  For every token instruction partition_token_instruction
\* returns Some(mint) for, the TransactionTokenMeta the key was taken from
\* (an entry of the balance index or of the overlay, for an account of the
\* instruction) has decimals = 0 and pre_amount and post_amount each absent
\* or "0" or "1".
NftHeuristic ==
    KeyFromTokenMeta =>
        LET p == plast[1] IN
        /\ IsSome(p.meta)
        /\ \/ \E i \in 1..Len(token_metas) : token_metas[i] = p.meta[1]
           \/ \E i \in 1..Len(p.overlay_before) : p.overlay_before[i] = p.meta[1]
        /\ \E a \in 1..Len(p.instruction.accounts) :
              p.instruction.accounts[a] = p.meta[1].account_index
        /\ p.meta[1].mint_key = p.key[1]
        /\ p.meta[1].decimals = 0
        /\ AbsentOrZeroOrOne(p.meta[1].pre_amount)
        /\ AbsentOrZeroOrOne(p.meta[1].post_amount)

\* A Transfer was partitioned to the mint of its token account.
NftHeuristicWitness ==
    /\ KeyFromTokenMeta
    /\ plast[1].instruction.data.kind = "Transfer"
    /\ plast[1].key = Some("MintA")

\* C10 as stated: partition_transaction called on a failed transaction
\* returns Ok with an empty list (so it has emitted none of its instructions
\* and raised no partitioner or transient-overlay error).
FailedTransactionIgnored ==
    (Returned /\ IsSome(tx) /\ StatusIsErr(tx[1]))
        => (result = "Ok" /\ partitioned = <<>>)

\* The rows of the command's table whose transaction failed.
FailedRows ==
    IF IsSome(cmd)
    THEN {r \in 1..Len(cmd[1].input) : StatusIsErr(cmd[1].input[r].transaction)}
    ELSE {}

\* C10: a failed transaction is ignored wholesale by the partition command.
\* For a row whose transaction failed, the command does not call
\* partition_transaction, so none of its instructions is classified, and it
\* writes no partitions row, no account_keys row and no warning for it.
FailedRowSkipped ==
    \A r \in FailedRows :
        /\ ~(cmd[1].next = r /\ pc # "idle")
        /\ \A i \in 1..Len(cmd[1].partitions) : cmd[1].partitions[i].signature # r
        /\ \A i \in 1..Len(cmd[1].account_keys) : cmd[1].account_keys[i] # r
        /\ \A i \in 1..Len(cmd[1].warnings) : cmd[1].warnings[i].signature # r

\* The command has read its whole table: it went past a failed row whose
\* instruction is one it partitions when the transaction succeeded, and
\* wrote the partitions of another row.
FailedRowSkippedWitness ==
    /\ IsSome(cmd)
    /\ pc = "idle"
    /\ cmd[1].next = Len(cmd[1].input)
    /\ \E r \in FailedRows : cmd[1].input[r].transaction.outer = <<DrvTransfer>>
    /\ Len(cmd[1].partitions) > 0

----------------------------------------------------------------------------
(* More properties of the assembler, checked under Spec.                    *)

\* C11: in every state reachable by Bonbon.update calls from a default
\* Bonbon, limited_edition is Some only if edition_status is Limited and the
\* most recent successful mint-new-edition instruction was the ViaToken or
\* the ViaVaultProxy variant.
LimitedEditionOrigin ==
    IsSome(bonbon.limited_edition) =>
        /\ bonbon.edition_status = "Limited"
        /\ IsSome(edition_mint)
        /\ edition_mint[1] \in {"MintNewEditionFromMasterEditionViaToken",
                                "MintNewEditionFromMasterEditionViaVaultProxy"}

\* A Bonbon minted via token keeps its limited_edition through a later
\* mint-new-edition call that failed after it had assigned edition_status.
LimitedEditionOriginWitness ==
    /\ IsSome(bonbon.limited_edition)
    /\ IsMintEdition(last.ins)
    /\ last.result \in {"BadAccountKeyIndex", "Panic"}

\* The call reached the metadata updater with an instruction of one of
\* `kinds`.
MetadataCallOf(l, kinds) == IsMetadataCall(l) /\ l.ins.data.kind \in kinds

\* account_keys[accts[pos]] of the instruction, as an Option: None when the
\* accounts list or account_keys is too short.
KeyAt(ins, pos) ==
    IF pos < Len(ins.accounts) /\ ins.accounts[pos + 1] < Len(AccountKeys)
    THEN Some(AccountKeys[ins.accounts[pos + 1] + 1])
    ELSE None

MasterEditionKinds ==
    {"DeprecatedCreateMasterEdition", "CreateMasterEdition", "CreateMasterEditionV3"}

\* The position of the metadata account in a create-master-edition.
MasterEditionPosition(kind) ==
    IF kind = "DeprecatedCreateMasterEdition" THEN 7 ELSE 5

\* C15: create master edition guard.  DeprecatedCreateMasterEdition /
\* CreateMasterEdition / CreateMasterEditionV3 succeeds only if
\* bonbon.metadata_key is the account at position 7 / 5 / 5 and
\* edition_status is None, and then sets edition_status to Master (and
\* nothing else); when the account is there and the guard does not hold it
\* returns InvalidMasterEditionCreate.  So a create-master-edition on a
\* Bonbon that is already Master fails with InvalidMasterEditionCreate.
MasterEditionGuard ==
    [][MetadataCallOf(last', MasterEditionKinds) =>
         LET k == KeyAt(last'.ins, MasterEditionPosition(last'.ins.data.kind))
             guard == /\ IsSome(k)
                      /\ bonbon.metadata_key = k[1]
                      /\ bonbon.edition_status = "None"
         IN  /\ last'.result = "Ok" => guard
             /\ guard =>
                  /\ last'.result = "Ok"
                  /\ bonbon' = [bonbon EXCEPT !.edition_status = "Master"]
             /\ (IsSome(k) /\ ~guard) =>
                  last'.result = "InvalidMasterEditionCreate"
             /\ (IsSome(k) /\ bonbon.edition_status = "Master") =>
                  /\ last'.result = "InvalidMasterEditionCreate"
                  /\ bonbon'.edition_status = "Master"]_vars

\* A create-master-edition naming the Bonbon's own metadata account has
\* just failed on a Bonbon that an earlier one had made Master.
MasterEditionGuardWitness ==
    /\ MetadataCallOf(last, MasterEditionKinds)
    /\ last.result = "InvalidMasterEditionCreate"
    /\ bonbon.edition_status = "Master"
    /\ KeyAt(last.ins, MasterEditionPosition(last.ins.data.kind))
         = Some(bonbon.metadata_key)

CreateKinds == {"CreateMetadataAccount", "CreateMetadataAccountV2"}

\* The Glazing a create instruction describes: its uri, its creators each
\* with the same address, verified and share, and its collection (v2 only)
\* with the collection's key as address.
DescribedGlazing(d, g) ==
    /\ g.uri = d.uri
    /\ IF IsSome(d.creators)
       THEN /\ Len(g.creators) = Len(d.creators[1])
            /\ \A i \in 1..Len(g.creators) :
                  /\ g.creators[i].address = d.creators[1][i].address
                  /\ g.creators[i].verified = d.creators[1][i].verified
                  /\ g.creators[i].share = d.creators[1][i].share
       ELSE g.creators = <<>>
    /\ IF d.kind = "CreateMetadataAccountV2" /\ IsSome(d.collection)
       THEN /\ IsSome(g.collection)
            /\ g.collection[1].address = d.collection[1].key
            /\ g.collection[1].verified = d.collection[1].verified
       ELSE g.collection = None

\* C16: create metadata guard.  CreateMetadataAccount (v1/v2) succeeds only
\* if find_metadata_account(bonbon.mint_key) is account_keys[accts[0]]; on
\* success it sets metadata_key to that account and appends one Glazing with
\* the instruction's uri and creators (collection: the v2 collection, None
\* for v1), changing nothing else; on mismatch it returns
\* InvalidMetadataCreate and leaves metadata_key and glazing unchanged.
MetadataCreateGuard ==
    [][MetadataCallOf(last', CreateKinds) =>
         LET k == KeyAt(last'.ins, 0)
             match == IsSome(k) /\ find_metadata_account(bonbon.mint_key) = k[1]
         IN  /\ last'.result = "Ok" => match
             /\ match =>
                  /\ last'.result = "Ok"
                  /\ bonbon'.metadata_key = k[1]
                  /\ Len(bonbon'.glazing) = Len(bonbon.glazing) + 1
                  /\ IsPrefix(bonbon.glazing, bonbon'.glazing)
                  /\ DescribedGlazing(last'.ins.data,
                                      bonbon'.glazing[Len(bonbon'.glazing)])
                  /\ [bonbon' EXCEPT !.metadata_key = bonbon.metadata_key,
                                     !.glazing = bonbon.glazing] = bonbon
             /\ (IsSome(k) /\ ~match) =>
                  /\ last'.result = "InvalidMetadataCreate"
                  /\ bonbon'.metadata_key = bonbon.metadata_key
                  /\ bonbon'.glazing = bonbon.glazing]_vars

\* A create naming another metadata account than the mint's has failed on
\* a Bonbon whose metadata an earlier create had set and described.
MetadataCreateGuardWitness ==
    /\ MetadataCallOf(last, CreateKinds)
    /\ last.result = "InvalidMetadataCreate"
    /\ bonbon.metadata_key = find_metadata_account(bonbon.mint_key)
    /\ Len(bonbon.glazing) >= 1

UpdateKinds == {"UpdateMetadataAccount", "UpdateMetadataAccountV2"}

\* C17: update metadata.  UpdateMetadataAccount (v1/v2) returns
\* InvalidMetadataUpdate and changes nothing when bonbon.metadata_key is not
\* account_keys[accts[0]]; when the keys match and the update carries data it
\* succeeds and appends exactly one Glazing (nothing else changes); when the
\* keys match and data is absent it succeeds and leaves the Bonbon unchanged.
MetadataUpdateGuard ==
    [][MetadataCallOf(last', UpdateKinds) =>
         LET k == KeyAt(last'.ins, 0)
             match == IsSome(k) /\ bonbon.metadata_key = k[1]
         IN  /\ (IsSome(k) /\ ~match) =>
                  /\ last'.result = "InvalidMetadataUpdate"
                  /\ bonbon' = bonbon
             /\ (match /\ IsSome(last'.ins.data.data)) =>
                  /\ last'.result = "Ok"
                  /\ Len(bonbon'.glazing) = Len(bonbon.glazing) + 1
                  /\ IsPrefix(bonbon.glazing, bonbon'.glazing)
                  /\ bonbon'.glazing[Len(bonbon'.glazing)].uri
                       = last'.ins.data.data[1].uri
                  /\ [bonbon' EXCEPT !.glazing = bonbon.glazing] = bonbon
             /\ (match /\ ~IsSome(last'.ins.data.data)) =>
                  /\ last'.result = "Ok"
                  /\ bonbon' = bonbon]_vars

\* An update without data has succeeded on a Bonbon whose metadata account
\* it names, after a create.
MetadataUpdateGuardWitness ==
    /\ MetadataCallOf(last, UpdateKinds)
    /\ last.result = "Ok"
    /\ ~IsSome(last.ins.data.data)
    /\ KeyAt(last.ins, 0) = Some(bonbon.metadata_key)
    /\ Len(bonbon.glazing) >= 1

VerifyKinds ==
    { "SignMetadata", "RemoveCreatorVerification", "VerifyCollection",
      "UnverifyCollection", "SetAndVerifyCollection" }

\* C18: SignMetadata, RemoveCreatorVerification, VerifyCollection,
\* UnverifyCollection and SetAndVerifyCollection return
\* InvalidMetadataVerifyOperation whenever bonbon.metadata_key is not
\* account_keys[accts[0]], and then append no Glazing and change no field
\* of the Bonbon.
VerifyGuard ==
    [][MetadataCallOf(last', VerifyKinds) =>
         LET k == KeyAt(last'.ins, 0)
         IN  (IsSome(k) /\ bonbon.metadata_key # k[1]) =>
                /\ last'.result = "InvalidMetadataVerifyOperation"
                /\ bonbon' = bonbon]_vars

\* A verification naming another metadata account has failed on a Bonbon
\* that has a metadata account and a snapshot.
VerifyGuardWitness ==
    /\ MetadataCallOf(last, VerifyKinds)
    /\ last.result = "InvalidMetadataVerifyOperation"
    /\ bonbon.metadata_key # DefaultKey
    /\ Len(bonbon.glazing) >= 1

MintEditionViaKinds ==
    { "MintNewEditionFromMasterEditionViaToken",
      "MintNewEditionFromMasterEditionViaVaultProxy" }

MintEditionKinds ==
    MintEditionViaKinds
    \cup {"DeprecatedMintNewEditionFromMasterEditionViaPrintingToken"}

\* The position of the master edition account in a mint-new-edition.
MasterPosition(kind) ==
    IF kind = "MintNewEditionFromMasterEditionViaToken" THEN 10 ELSE 12

\* What C19 says of a successful mint-new-edition, but for edition_num:
\* the call required account_keys[accts[0]] to be the metadata account of
\* the mint, and set metadata_key to it and edition_status to Limited; the
\* deprecated variant set limited_edition to None, the two others to Some
\* with master_key = account_keys[accts[10]] (resp. accts[12]).
MintEditionSets(b, b2, ins) ==
    /\ KeyAt(ins, 0) = Some(find_metadata_account(b.mint_key))
    /\ b2.metadata_key = find_metadata_account(b2.mint_key)
    /\ b2.edition_status = "Limited"
    /\ IF ins.data.kind \in MintEditionViaKinds
       THEN /\ IsSome(b2.limited_edition)
            /\ Some(b2.limited_edition[1].master_key)
                 = KeyAt(ins, MasterPosition(ins.data.kind))
            /\ IsSome(b2.limited_edition[1].edition_num)
       ELSE b2.limited_edition = None
    /\ [b2 EXCEPT !.metadata_key = b.metadata_key,
                  !.edition_status = b.edition_status,
                  !.limited_edition = b.limited_edition] = b

\* The i64 is the number the u64 is.
SameNumber(i, u) == i.neg63 = 0 /\ u.top = 0 /\ i.low = u.low

\* The i64 has the bits of the u64: it is the same number below 2^63, and
\* the u64 minus 2^64 from 2^63 on.
SameBits(i, u) == i.neg63 = u.top /\ i.low = u.low

\* C19 as stated: a successful mint-new-edition sets the fields as
\* MintEditionSets says, and edition_num is the instruction's edition e.
MintEditionNumber ==
    [][(MetadataCallOf(last', MintEditionKinds) /\ last'.result = "Ok") =>
         /\ MintEditionSets(bonbon, bonbon', last'.ins)
         /\ last'.ins.data.kind \in MintEditionViaKinds =>
              SameNumber(bonbon'.limited_edition[1].edition_num[1],
                         last'.ins.data.edition)]_vars

\* C19: a successful mint-new-edition sets the fields as MintEditionSets
\* says, and edition_num is the instruction's edition cast to i64: e when
\* e < 2^63, e - 2^64 otherwise.
MintEditionEffect ==
    [][(MetadataCallOf(last', MintEditionKinds) /\ last'.result = "Ok") =>
         /\ MintEditionSets(bonbon, bonbon', last'.ins)
         /\ last'.ins.data.kind \in MintEditionViaKinds =>
              SameBits(bonbon'.limited_edition[1].edition_num[1],
                       last'.ins.data.edition)]_vars

\* A mint-new-edition via token whose edition is 2^63 or more has succeeded.
MintEditionEffectWitness ==
    /\ MetadataCallOf(last, MintEditionViaKinds)
    /\ last.result = "Ok"
    /\ last.ins.data.edition.top = 1
    /\ IsSome(bonbon.limited_edition)
    /\ bonbon.limited_edition[1].master_key = "MasterA"

\* C20: owner tracking, checked under SpecToken.  After a successful
\* Transfer, MintTo or MintToChecked, current_account is
\* account_keys[accts[1]] and current_owner the owner_key of the owners entry
\* for accts[1], None when there is none (accts[2] for TransferChecked); and
\* after any sequence of token instructions current_account and
\* current_owner are those of the last Transfer/MintTo/Burn-family
\* instruction that succeeded (a burn leaves both None).
OwnerTracking ==
    /\ bonbon.current_account = moved.account
    /\ bonbon.current_owner = moved.owner

\* The last Glazing of a glazing list, Glazing::default() when it is empty.
TipOf(glazing) ==
    IF Len(glazing) > 0 THEN glazing[Len(glazing)] ELSE DefaultGlazing

\* C25: after a successful UnverifyCollection exactly one Glazing is
\* appended; its collection is Some{address = account_keys[accts[3]],
\* verified = true}, the flag VerifyCollection sets, and its uri and creators
\* are those of the previous tip.
UnverifyCollectionEffect ==
    [][( /\ MetadataCallOf(last', {"UnverifyCollection"})
         /\ last'.result = "Ok" )
       => /\ Len(bonbon'.glazing) = Len(bonbon.glazing) + 1
          /\ IsPrefix(bonbon.glazing, bonbon'.glazing)
          /\ TipOf(bonbon'.glazing).collection =
                Some([address |-> KeyAt(last'.ins, 3)[1], verified |-> TRUE])
          /\ TipOf(bonbon'.glazing).uri = TipOf(bonbon.glazing).uri
          /\ TipOf(bonbon'.glazing).creators = TipOf(bonbon.glazing).creators]_vars

\* An UnverifyCollection has succeeded on a Bonbon whose metadata was
\* created with a creator and without a collection.
UnverifyCollectionEffectWitness ==
    /\ MetadataCallOf(last, {"UnverifyCollection"})
    /\ last.result = "Ok"
    /\ Len(bonbon.glazing) = 2
    /\ bonbon.glazing[1].collection = None
    /\ bonbon.glazing[2].creators # <<>>
    /\ bonbon.glazing[2].collection[1].verified

----------------------------------------------------------------------------
(* More properties of the partitioner, checked under SpecPartition.         *)

\* The last try_partition_instruction call handed a token instruction of
\* one of `kinds` to partition_token_instruction.
LastTokenCall(kinds) ==
    /\ IsSome(plast)
    /\ plast[1].found
    /\ tx[1].account_keys[plast[1].instruction.program_id_index + 1] = TokenProgramId
    /\ plast[1].instruction.data.enc = "token"
    /\ plast[1].instruction.data.kind \in kinds

\* The account indexes a vector of TransactionTokenMeta has entries for.
AccountsOf(metas) == {metas[i].account_index : i \in 1..Len(metas)}

\* How many entries of the vector are for account index a.
CountFor(metas, a) == Cardinality({i \in 1..Len(metas) : metas[i].account_index = a})

\* The instruction is an InitializeAccount(2) or CloseAccount on a token
\* account that is in neither the pre- nor the post-token balances.
OnTransientAccount(ins) ==
    /\ ins.program_id_index = Idx(TokenProgramId)
    /\ ins.data.enc = "token"
    /\ ins.data.kind \in {"InitializeAccount", "InitializeAccount2", "CloseAccount"}
    /\ Len(ins.accounts) > 0
    /\ ins.accounts[1] \notin AccountsOf(token_metas)

\* C12: transient account round trip.  For a token account T that is in
\* neither the pre- nor the post-token balances: an InitializeAccount(2) for
\* T adds one overlay entry (for T, with the mint the instruction names) and
\* returns None; a later CloseAccount for T removes that entry and returns
\* None; neither instruction is in the output; and partition_transaction
\* returns Ok for the transaction that initializes T and then closes it.
TransientRoundTrip ==
    /\ ( /\ LastTokenCall({"InitializeAccount", "InitializeAccount2"})
         /\ OnTransientAccount(plast[1].instruction)
         /\ plast[1].instruction.accounts[1] \notin AccountsOf(plast[1].overlay_before)
         /\ plast[1].result = "Ok" )
       => /\ plast[1].key = None
          /\ transient_metas =
               Append(plast[1].overlay_before,
                      [account_index |-> plast[1].instruction.accounts[1],
                       decimals |-> 1, pre_amount |-> None, post_amount |-> None,
                       mint_key |-> tx[1].account_keys[
                                       plast[1].instruction.accounts[2] + 1]])
    /\ ( /\ LastTokenCall({"CloseAccount"})
         /\ OnTransientAccount(plast[1].instruction)
         /\ plast[1].instruction.accounts[1] \in AccountsOf(plast[1].overlay_before) )
       => /\ plast[1].result = "Ok"
          /\ plast[1].key = None
          /\ Len(transient_metas) = Len(plast[1].overlay_before) - 1
          /\ CountFor(transient_metas, plast[1].instruction.accounts[1])
               = CountFor(plast[1].overlay_before,
                          plast[1].instruction.accounts[1]) - 1
    /\ \A i \in 1..Len(partitioned) : ~OnTransientAccount(partitioned[i].instruction)
    /\ ( /\ Returned
         /\ IsSome(tx)
         /\ IsSome(tx[1].status)
         /\ tx[1].outer = <<DrvInit, DrvClose>>
         /\ tx[1].status[1].inner_instructions = <<>>
         /\ DrvInit.accounts[1] \notin AccountsOf(token_metas) )
       => (result = "Ok" /\ partitioned = <<>>)

\* partition_transaction returned from the transaction that initializes
\* TokenAcct2 and then closes it, TokenAcct2 being in no token balance.
TransientRoundTripWitness ==
    /\ Returned
    /\ tx[1].outer = <<DrvInit, DrvClose>>
    /\ tx[1].status[1].inner_instructions = <<>>
    /\ token_metas # <<>>
    /\ DrvInit.accounts[1] \notin AccountsOf(token_metas)
    /\ LastTokenCall({"CloseAccount"})
    /\ Len(plast[1].overlay_before) = 1
    /\ transient_metas = <<>>


\* account_keys[program_id_index] exists and no partitioner is registered
\* for it.
UnknownProgram(ins, account_keys) ==
    /\ ins.program_id_index < Len(account_keys)
    /\ \A i \in 1..Len(Partitioners) :
          Partitioners[i].program_id # account_keys[ins.program_id_index + 1]

\* C13: an instruction whose program is not in the partitioner registry is
\* skipped silently: the try_partition_instruction call on it pushes no
\* PartitionedInstruction, raises no error (partition_transaction goes on)
\* and leaves the transient overlay unchanged.
UnknownProgramSkipped ==
    [][( /\ pc \in {"inner", "outer_ins"}
         /\ IsSome(plast')
         /\ UnknownProgram(plast'[1].instruction, tx[1].account_keys) )
       => /\ partitioned' = partitioned
          /\ transient_metas' = transient_metas
          /\ result' = result
          /\ pc' # "done"
          /\ plast'[1].result = "Ok"]_vars

\* An instruction of an unregistered program has just been passed over while
\* the overlay held an entry.
UnknownProgramSkippedWitness ==
    /\ IsSome(plast)
    /\ UnknownProgram(plast[1].instruction, tx[1].account_keys)
    /\ plast[1].overlay_before # <<>>
    /\ transient_metas = plast[1].overlay_before
    /\ partitioned # <<>>
    /\ pc # "done"

\* The token instructions whose amount, or amount and decimals, are checked.
GatedKinds ==
    {"Transfer", "Approve", "MintTo", "Burn",
     "TransferChecked", "ApproveChecked", "MintToChecked", "BurnChecked"}

\* The instruction is a token instruction with amount > 1 or, for the Checked
\* variants, amount > 1 or decimals != 0.
OverAmount(ins) ==
    /\ ins.data.enc = "token"
    /\ ins.data.kind \in GatedKinds
    /\ \/ ins.data.amount > 1
       \/ ins.data.kind \in {"TransferChecked", "ApproveChecked",
                              "MintToChecked", "BurnChecked"}
          /\ ins.data.decimals # 0

\* C21: amount gating.  A Transfer, Approve, MintTo or Burn with amount > 1,
\* and a TransferChecked, ApproveChecked, MintToChecked or BurnChecked with
\* amount > 1 or decimals != 0, is partitioned to Ok(None) and never emitted;
\* the check comes before the token-meta lookup: no TransactionTokenMeta is
\* looked up, the result is Ok(None) whether or not one exists for the
\* account, and the overlay is left as it was.
AmountGating ==
    /\ ( LastTokenCall(GatedKinds) /\ OverAmount(plast[1].instruction) )
       => /\ plast[1].result = "Ok"
          /\ plast[1].key = None
          /\ plast[1].meta = None
          /\ transient_metas = plast[1].overlay_before
    /\ \A i \in 1..Len(partitioned) :
          partitioned[i].program_key = TokenProgramId
             => ~OverAmount(partitioned[i].instruction)

\* A TransferChecked with decimals 9 on an account that has no
\* TransactionTokenMeta was partitioned, and partition_transaction returned.
AmountGatingWitness ==
    /\ Returned
    /\ result = "Ok"
    /\ LastTokenCall({"TransferChecked"})
    /\ plast[1].instruction.data.decimals = 9
    /\ get_token_meta_for(plast[1].instruction, token_metas,
                          plast[1].overlay_before, 0) = None

\* The token instructions that look up a TransactionTokenMeta and are not
\* InitializeAccount(2), and the account position each looks up.
LookupKinds ==
    GatedKinds \cup {"Revoke", "SetAuthority", "FreezeAccount", "ThawAccount"}

LookupPosition(kind) == IF kind \in {"MintTo", "MintToChecked"} THEN 1 ELSE 0

\* The last call was for an instruction that has account position pos, and
\* neither the balance index nor the overlay had a TransactionTokenMeta for
\* the account at that position.
NoTokenMetaAt(pos) ==
    /\ pos < Len(plast[1].instruction.accounts)
    /\ plast[1].instruction.accounts[pos + 1]
          \notin AccountsOf(token_metas) \cup AccountsOf(plast[1].overlay_before)

\* The last call was a token instruction of LookupKinds that passed its
\* pre-check and found no TransactionTokenMeta for the account it refers to.
LookupMissed ==
    /\ LastTokenCall(LookupKinds)
    /\ ~OverAmount(plast[1].instruction)
    /\ NoTokenMetaAt(LookupPosition(plast[1].instruction.data.kind))

\* The last call was an InitializeAccount(2) that found no
\* TransactionTokenMeta for the account at position 0.
InitializeMissed ==
    /\ LastTokenCall({"InitializeAccount", "InitializeAccount2"})
    /\ NoTokenMetaAt(0)

\* C22 as stated: every token instruction that passes its pre-check, other
\* than InitializeMint, InitializeAccount(2), InitializeMultisig,
\* CloseAccount and SyncNative, returns Err(BadTokenMetaAccountIndex) when
\* no TransactionTokenMeta exists for the account it refers to, and
\* InitializeAccount(2) returns Ok(None) in that situation.
MissingTokenMetaAlways ==
    /\ LookupMissed => plast[1].result = "BadTokenMetaAccountIndex"
    /\ InitializeMissed => (plast[1].result = "Ok" /\ plast[1].key = None)

\* C22: a token instruction that passes its pre-check and looks up a
\* TransactionTokenMeta (Transfer, Approve, Revoke, MintTo, Burn, Freeze- and
\* ThawAccount, the Checked variants, and SetAuthority of any authority but
\* MintTokens) returns Err(BadTokenMetaAccountIndex) when neither the balance
\* index nor the overlay has one for the account, and partition_transaction
\* returns that error; SetAuthority{MintTokens} returns Ok(None) without a
\* lookup.  InitializeAccount(2) in that situation pushes an overlay entry
\* and returns Ok(None) when account position 1 names an account key,
\* returns Err(BadAccountKeyIndex) when it names none, and aborts when the
\* instruction has no position 1.
MissingTokenMeta ==
    /\ LookupMissed =>
          IF /\ plast[1].instruction.data.kind = "SetAuthority"
             /\ plast[1].instruction.data.authority_type = "MintTokens"
          THEN /\ plast[1].result = "Ok"
               /\ plast[1].key = None
               /\ plast[1].meta = None
          ELSE /\ plast[1].result = "BadTokenMetaAccountIndex"
               /\ Returned
               /\ result = "BadTokenMetaAccountIndex"
    /\ InitializeMissed =>
          LET ins == plast[1].instruction IN
          IF Len(ins.accounts) < 2 THEN plast[1].result = "Panic"
          ELSE IF ins.accounts[2] >= Len(tx[1].account_keys)
               THEN /\ plast[1].result = "BadAccountKeyIndex"
                    /\ transient_metas = plast[1].overlay_before
               ELSE /\ plast[1].result = "Ok"
                    /\ plast[1].key = None
                    /\ Len(transient_metas) = Len(plast[1].overlay_before) + 1

\* A Transfer on an account without a TransactionTokenMeta has made
\* partition_transaction return the error, after an entry was emitted.
MissingTokenMetaWitness ==
    /\ LookupMissed
    /\ plast[1].instruction.data.kind = "Transfer"
    /\ plast[1].result = "BadTokenMetaAccountIndex"
    /\ Returned
    /\ partitioned # <<>>

\* partition_transaction has built its balance index and has not returned.
IndexBuilt == pc \in {"outer", "inner", "outer_ins"}

\* The positions of the entries for account index a in a balance list.
EntriesFor(balances, a) ==
    {i \in 1..Len(balances) : balances[i].account_index = a}

\* The amount of the last entry for a, None when there is no entry.
LastAmount(balances, a) ==
    LET e == EntriesFor(balances, a)
    IN  IF e = {} THEN None
        ELSE Some(balances[CHOOSE i \in e : \A j \in e : j <= i].amount)

\* The earliest entry for a: the first of pre, or else the first of post.
EarliestEntry(pre, post, a) ==
    LET e == EntriesFor(pre, a)
        f == EntriesFor(post, a)
    IN  IF e # {} THEN pre[CHOOSE i \in e : \A j \in e : i <= j]
        ELSE post[CHOOSE i \in f : \A j \in f : i <= j]

\* C23: balance index merge.  The index partition_transaction builds holds
\* exactly one TransactionTokenMeta per account_index that occurs in
\* pre_token_balances or post_token_balances; its pre_amount is the amount
\* of the last pre entry for that index and its post_amount the amount of
\* the last post entry, None when there is no entry; its mint and decimals
\* are those of the earliest entry, pre before post.
BalanceIndexMerge ==
    IndexBuilt =>
        LET pre == tx[1].status[1].pre_token_balances
            post == tx[1].status[1].post_token_balances
            both == pre \o post
        IN  /\ AccountsOf(token_metas) = {both[i].account_index : i \in 1..Len(both)}
            /\ \A i \in 1..Len(token_metas) :
                  LET m == token_metas[i]
                      a == m.account_index
                      first == EarliestEntry(pre, post, a)
                  IN  /\ CountFor(token_metas, a) = 1
                      /\ m.pre_amount = LastAmount(pre, a)
                      /\ m.post_amount = LastAmount(post, a)
                      /\ m.mint_key = first.mint
                      /\ m.decimals = first.decimals

\* The index was built from balances that name one account twice before and
\* once after, with different mints, and another account twice after.
BalanceIndexMergeWitness ==
    /\ IndexBuilt
    /\ Len(token_metas) = 2
    /\ \E a \in AccountsOf(token_metas) :
          /\ Cardinality(EntriesFor(tx[1].status[1].pre_token_balances, a)) = 2
          /\ \E i, j \in EntriesFor(tx[1].status[1].pre_token_balances, a) :
                tx[1].status[1].pre_token_balances[i].mint
                   # tx[1].status[1].pre_token_balances[j].mint
    /\ \E a \in AccountsOf(token_metas) :
          /\ EntriesFor(tx[1].status[1].pre_token_balances, a) = {}
          /\ Cardinality(EntriesFor(tx[1].status[1].post_token_balances, a)) = 2

\* partition_transaction on a transaction that has a status meta, decodable
\* balances and no inner instructions, from outer instruction i on, run by
\* itself: `transient` and `out` are its own overlay and output.
RECURSIVE AloneFrom(_, _, _, _, _)
AloneFrom(t, metas, i, transient, out) ==
    IF i > Len(t.outer)
    THEN [result |-> FinishResult(transient),
          partitioned |-> IF FinishResult(transient) = "Ok" THEN out ELSE <<>>]
    ELSE LET p == partition_instruction(t.outer[i], t.account_keys, metas,
                                        transient, Partitioners)
         IN  IF p.ret.result # "Ok"
             THEN [result |-> p.ret.result, partitioned |-> <<>>]
             ELSE AloneFrom(t, metas, i + 1, p.ret.transient,
                            IF IsSome(p.ret.key)
                            THEN Append(out, [instruction |-> t.outer[i],
                                              partition_key |-> p.ret.key[1],
                                              program_key |-> p.program_id,
                                              outer_index |-> i - 1,
                                              inner_index |-> None])
                            ELSE out)

\* What partition_transaction returns for transaction t when nothing was
\* partitioned before it; metas is the balance index in the order it came.
Alone(t, metas) ==
    IF ~IsSome(t.status)
    THEN [result |-> "MissingTransactionStatusMeta", partitioned |-> <<>>]
    ELSE IF BuildIndex(t.status[1].pre_token_balances,
                       t.status[1].post_token_balances).err
         THEN [result |-> "BadPubkeyString", partitioned |-> <<>>]
         ELSE AloneFrom(t, metas, 1, <<>>, <<>>)

\* C24: transactions share no state.  Whatever was partitioned before it
\* (a transaction that failed and left an entry in its overlay included), a
\* call of partition_transaction starts with an empty overlay, every entry of
\* its overlay was pushed by one of its own instructions, and it returns
\* what it returns for the same transaction partitioned alone.
TransactionsShareNoState ==
    /\ (IndexBuilt /\ plast = None) => transient_metas = <<>>
    /\ (IndexBuilt /\ IsSome(plast)) =>
          \A i \in 1..Len(transient_metas) :
             \/ \E j \in 1..Len(plast[1].overlay_before) :
                   plast[1].overlay_before[j] = transient_metas[i]
             \/ transient_metas[i].account_index = plast[1].instruction.accounts[1]
    /\ ( /\ Returned
         /\ IsSome(tx[1].status) => tx[1].status[1].inner_instructions = <<>> )
       => Outcome = Alone(tx[1], token_metas)

\* The command partitioned a transaction that failed with an account left
\* in its overlay, and then a transaction with an instruction on that same
\* account, which found no TransactionTokenMeta for it.
TransactionsShareNoStateWitness ==
    /\ IsSome(cmd)
    /\ Returned
    /\ cmd[1].next = 2
    /\ cmd[1].warnings # <<>>
    /\ cmd[1].warnings[1].error = "FailedTransientTokenAccountMatching"
    /\ tx[1].outer = <<DrvRevoke>>
    /\ result = "BadTokenMetaAccountIndex"

\* The last try_partition_instruction call handed a decodable metadata
\* instruction to partition_metadata_instruction.
LastMetadataCall ==
    /\ IsSome(plast)
    /\ plast[1].found
    /\ tx[1].account_keys[plast[1].instruction.program_id_index + 1] = MetadataProgramId
    /\ plast[1].instruction.data.enc = "metadata"

\* The table of C28: the account position whose key is the partition key,
\* -1 where the table has None.
TablePosition(kind) ==
    CASE kind \in { "CreateMetadataAccount", "CreateMetadataAccountV2",
                    "UpdateMetadataAccount", "UpdateMetadataAccountV2",
                    "SignMetadata", "RemoveCreatorVerification",
                    "VerifyCollection", "SetAndVerifyCollection",
                    "UnverifyCollection", "UpdatePrimarySaleHappenedViaToken",
                    "PuffMetadata", "Utilize",
                    "DeprecatedMintNewEditionFromMasterEditionViaPrintingToken",
                    "MintNewEditionFromMasterEditionViaToken",
                    "MintNewEditionFromMasterEditionViaVaultProxy" } -> 0
      [] kind \in {"DeprecatedCreateMasterEdition"} -> 7
      [] kind \in { "CreateMasterEdition", "CreateMasterEditionV3",
                    "DeprecatedCreateReservationList",
                    "DeprecatedMintPrintingTokensViaToken",
                    "ApproveUseAuthority", "RevokeUseAuthority" } -> 5
      [] kind \in {"DeprecatedMintPrintingTokens", "RevokeCollectionAuthority"} -> 3
      [] kind \in {"ApproveCollectionAuthority"} -> 4
      [] kind \in { "DeprecatedSetReservationList", "ConvertMasterEditionV1ToV2",
                    "FreezeDelegatedAccount", "ThawDelegatedAccount" } -> -1

\* Every account position a metadata instruction may read (0 to 12) is in
\* the instruction and names an account key.
AllPositionsNamed(ins) == \A p \in 0..12 : IsSome(KeyAt(ins, p))

\* C28: metadata partitioner table.  For each decoded metadata instruction
\* whose account positions name account keys, partition_metadata_instruction
\* returns Some(account_keys[accts[k]]) with k fixed per variant as the table
\* gives it, and None for DeprecatedSetReservationList,
\* ConvertMasterEditionV1ToV2 and Freeze/ThawDelegatedAccount; it looks up no
\* TransactionTokenMeta and leaves the overlay as it was, whatever the
\* balance index and the overlay hold.
MetadataTable ==
    LastMetadataCall =>
        LET ins == plast[1].instruction
            k == TablePosition(ins.data.kind)
        IN  /\ plast[1].meta = None
            /\ transient_metas = plast[1].overlay_before
            /\ k = -1 => (plast[1].result = "Ok" /\ plast[1].key = None)
            /\ (k >= 0 /\ AllPositionsNamed(ins))
                  => (plast[1].result = "Ok" /\ plast[1].key = KeyAt(ins, k))

\* An ApproveCollectionAuthority was keyed by its account 4 while the balance
\* index held entries.
MetadataTableWitness ==
    /\ LastMetadataCall
    /\ plast[1].instruction.data.kind = "ApproveCollectionAuthority"
    /\ plast[1].key = Some("Collection1")
    /\ KeyAt(plast[1].instruction, 0) = Some("PdaA")
    /\ token_metas # <<>>

\* The rows of the command's table whose result the command has handled.
RowsHandled ==
    IF IsSome(cmd)
    THEN 1..(IF pc = "idle" THEN cmd[1].next ELSE cmd[1].next - 1)
    ELSE {}

\* What partition_transaction returns for the transaction of row r.
RowAlone(r) ==
    LET t == cmd[1].input[r].transaction
        index == BuildIndex(t.status[1].pre_token_balances,
                            t.status[1].post_token_balances)
    IN  Alone(t, IF IsSome(t.status) /\ ~index.err
                 THEN CHOOSE v \in ValueOrders(index.map) : TRUE
                 ELSE <<>>)

\* The positions of the entries of a list of the command that carry the
\* signature of row r.
WrittenFor(rows, r) == {i \in 1..Len(rows) : rows[i].signature = cmd[1].input[r].signature}

\* C29: partition errors are all-or-nothing per transaction.  When the
\* partitioner returns an error for an instruction, partition_transaction
\* returns that error, the first in execution order, and the command logs it
\* and writes no partitions row and no account_keys row for the transaction,
\* not even for the instructions classified before the failing one; it then
\* goes on with the next row, so that every row it has handled either was
\* skipped, or has its error logged, or has all its entries written.
PartitionAllOrNothing ==
    /\ (Returned /\ IsSome(plast) /\ plast[1].result \notin {"Ok", "Panic"})
          => (result = plast[1].result /\ Outcome.partitioned = <<>>)
    /\ \A r \in RowsHandled :
          LET row == cmd[1].input[r]
              logged == WrittenFor(cmd[1].warnings, r)
              written == WrittenFor(cmd[1].partitions, r)
              keys == {i \in 1..Len(cmd[1].account_keys) :
                          cmd[1].account_keys[i] = row.signature}
          IN  IF SkipRow(row)
              THEN logged = {} /\ written = {} /\ keys = {}
              ELSE IF RowAlone(r).result # "Ok"
                   THEN /\ Cardinality(logged) = 1
                        /\ \A i \in logged :
                              cmd[1].warnings[i].error = RowAlone(r).result
                        /\ written = {}
                        /\ keys = {}
                   ELSE /\ logged = {}
                        /\ Cardinality(written) = Len(RowAlone(r).partitioned)

\* The command logged the error of a transaction whose first instruction
\* had been classified, wrote nothing for it, and went on to write the
\* entry of the next row.
PartitionAllOrNothingWitness ==
    /\ IsSome(cmd)
    /\ pc = "idle"
    /\ cmd[1].next = 2
    /\ Len(cmd[1].input[1].transaction.outer) = 3
    /\ cmd[1].warnings = <<[signature |-> 1, error |-> "BadTokenMetaAccountIndex"]>>
    /\ Len(cmd[1].partitions) = 1
    /\ cmd[1].partitions[1].signature = 2

----------------------------------------------------------------------------
(* Properties of the verification methods, checked under SpecGlazing.       *)

\* The creators of `after` are those of `before` but for the verified flag of
\* the first creator whose address is creator_key, which is v.
FirstMatchSet(before, after, creator_key, v) ==
    /\ Len(after) = Len(before)
    /\ \A i \in 1..Len(before) :
          IF /\ before[i].address = creator_key
             /\ \A j \in 1..(i - 1) : before[j].address # creator_key
          THEN after[i] = [before[i] EXCEPT !.verified = v]
          ELSE after[i] = before[i]

\* C26: apply_creator_verification(creator, v).  On an empty glazing it
\* appends a Glazing with empty uri, no collection and the single creator
\* {address = creator, verified = v, share = 0}.  Otherwise it appends a copy
\* of the last Glazing in which only the first creator whose address is
\* creator has verified = v; every other creator (later entries with the
\* same address included), the uri and the collection are those of the
\* previous tip; when no creator matches, the appended Glazing equals the
\* previous tip.
CreatorVerificationEffect ==
    [][last'.op = "apply_creator_verification" =>
         /\ Len(bonbon'.glazing) = Len(bonbon.glazing) + 1
         /\ IsPrefix(bonbon.glazing, bonbon'.glazing)
         /\ IF bonbon.glazing = <<>>
            THEN TipOf(bonbon'.glazing) =
                   [uri |-> "", collection |-> None,
                    creators |-> <<[address |-> last'.key,
                                    verified |-> last'.verified, share |-> 0]>>]
            ELSE /\ TipOf(bonbon'.glazing).uri = TipOf(bonbon.glazing).uri
                 /\ TipOf(bonbon'.glazing).collection = TipOf(bonbon.glazing).collection
                 /\ FirstMatchSet(TipOf(bonbon.glazing).creators,
                                  TipOf(bonbon'.glazing).creators,
                                  last'.key, last'.verified)
                 /\ (\A i \in 1..Len(TipOf(bonbon.glazing).creators) :
                        TipOf(bonbon.glazing).creators[i].address # last'.key)
                       => TipOf(bonbon'.glazing) = TipOf(bonbon.glazing)]_vars

\* A creator listed twice was verified: the first entry is verified and the
\* second is not.
CreatorVerificationEffectWitness ==
    /\ last.op = "apply_creator_verification"
    /\ last.verified
    /\ Len(bonbon.glazing) = 2
    /\ \E i, j \in 1..Len(bonbon.glazing[2].creators) :
          /\ i < j
          /\ bonbon.glazing[2].creators[i].address = last.key
          /\ bonbon.glazing[2].creators[j].address = last.key
          /\ bonbon.glazing[2].creators[i].verified
          /\ ~bonbon.glazing[2].creators[j].verified
          /\ ~bonbon.glazing[1].creators[i].verified

\* C27: apply_collection_verification(collection, v) appends one Glazing
\* whose collection is Some{address = collection, verified = v} and whose uri
\* and creators are those of the previous last Glazing, or empty when glazing
\* was empty.
CollectionVerificationEffect ==
    [][last'.op = "apply_collection_verification" =>
         /\ Len(bonbon'.glazing) = Len(bonbon.glazing) + 1
         /\ IsPrefix(bonbon.glazing, bonbon'.glazing)
         /\ TipOf(bonbon'.glazing).collection =
               Some([address |-> last'.key, verified |-> last'.verified])
         /\ IF bonbon.glazing = <<>>
            THEN /\ TipOf(bonbon'.glazing).uri = ""
                 /\ TipOf(bonbon'.glazing).creators = <<>>
            ELSE /\ TipOf(bonbon'.glazing).uri = bonbon.glazing[Len(bonbon.glazing)].uri
                 /\ TipOf(bonbon'.glazing).creators =
                       bonbon.glazing[Len(bonbon.glazing)].creators]_vars

\* A collection was unverified on top of a snapshot that has a uri, creators
\* and another collection.
CollectionVerificationEffectWitness ==
    /\ last.op = "apply_collection_verification"
    /\ ~last.verified
    /\ Len(bonbon.glazing) = 2
    /\ bonbon.glazing[1].uri # ""
    /\ Len(bonbon.glazing[1].creators) = 3
    /\ IsSome(bonbon.glazing[1].collection)
    /\ bonbon.glazing[1].collection[1].address # last.key
    /\ bonbon.glazing[2].collection[1].address = last.key

----------------------------------------------------------------------------
(* Properties of the reassemble command, checked under SpecReassemble.      *)

\* The mints the command has logged an outcome for.
Reassembled ==
    {rsm[1].made[i].mint_key : i \in 1..Len(rsm[1].made)}
    \cup {rsm[1].failed[i].mint_key : i \in 1..Len(rsm[1].failed)}

\* C14: reassembly covers every NFT.  When the reassemble command returns
\* Ok, it has run the assembler for each distinct partition key of the token
\* program: every mint has its Bonbon made or, when Bonbon.update returned
\* Err, its error recorded.
ReassemblyCoversEveryMint ==
    (IsSome(rsm) /\ rsm[1].returned = "Ok")
        => \A i \in 1..Len(rsm[1].mints) : rsm[1].mints[i] \in Reassembled

----------------------------------------------------------------------------
(* Properties of the fetch command, checked under SpecFetch.                *)

\* C30: the fetch chunk loop ends for every range with start <= end, and the
\* chunks [chunk_start, chunk_end) it requests are consecutive from start,
\* not empty, at most 16 slots long and inside [start, end); when fetch
\* returns Ok they cover [start, end) exactly, and none is requested when
\* start = end.
ChunksCoverRange ==
    IsSome(fch) =>
        LET f == fch[1]
            n == Len(f.requests)
        IN  /\ f.returned # "Panic"
            /\ \A i \in 1..n :
                  /\ U64Less(f.requests[i].chunk_start, f.requests[i].chunk_end)
                  /\ f.requests[i].limit <= chunk_size
                  /\ f.requests[i].chunk_start =
                        IF i = 1 THEN f.block_start ELSE f.requests[i - 1].chunk_end
                  /\ ~U64Less(f.block_end, f.requests[i].chunk_end)
            /\ f.returned = "Ok" =>
                  IF f.block_start = f.block_end THEN n = 0
                  ELSE n > 0 /\ f.requests[n].chunk_end = f.block_end

----------------------------------------------------------------------------
(* Properties of the driver loop, checked under SpecPartition.              *)

\* C31: emission order.  The sequence partition_transaction emits is
\* strictly increasing in (outer_index, inner_index) with inner_index = None
\* after every Some, at every point of the loop; so the rows of a
\* transaction sorted as reassemble's ORDER BY sorts them are the emitted
\* sequence.
EmissionOrder ==
    /\ \A i, j \in 1..Len(partitioned) :
          i < j => RowLess(partitioned[i], partitioned[j])
    /\ OrderBy(partitioned) = partitioned

\* partition_transaction returned Ok a sequence with two inner entries and
\* the outer entry of one outer index, and an entry of another outer index.
EmissionOrderWitness ==
    /\ Returned
    /\ result = "Ok"
    /\ \E i, j, k, l \in 1..Len(partitioned) :
          /\ partitioned[i].outer_index = partitioned[j].outer_index
          /\ partitioned[j].outer_index = partitioned[k].outer_index
          /\ partitioned[i].inner_index = Some(0)
          /\ partitioned[j].inner_index = Some(1)
          /\ partitioned[k].inner_index = None
          /\ partitioned[l].outer_index # partitioned[i].outer_index

\* The inner groups of the transaction being partitioned.
InnerGroups == tx[1].status[1].inner_instructions

\* How many of the calls made so far are the call c.
TimesCalled(c) ==
    Cardinality({n \in 1..Len(PastCalls) : PastCalls[n] = c})

\* Every outer instruction and every instruction of every inner group was
\* handed to try_partition_instruction exactly once, nothing else was, and
\* the iterator over the inner groups is exhausted.
ClassifiedOnce ==
    /\ \A o \in 0..(Len(tx[1].outer) - 1) :
          TimesCalled([outer_index |-> o, inner_index |-> None, group |-> 0]) = 1
    /\ \A g \in 1..Len(InnerGroups) :
          \A i \in 0..(Len(InnerGroups[g].instructions) - 1) :
             TimesCalled([outer_index |-> InnerGroups[g].index,
                          inner_index |-> Some(i), group |-> g]) = 1
    /\ \A n \in 1..Len(PastCalls) :
          \/ PastCalls[n].group = 0
          \/ /\ PastCalls[n].group \in 1..Len(InnerGroups)
             /\ PastCalls[n].outer_index = InnerGroups[PastCalls[n].group].index
    /\ inner_next = Len(InnerGroups) + 1

----------------------------------------------------------------------------
(* Properties of Bonbon.update as a whole, checked under Spec.              *)

\* C33: update atomicity on error.  Whenever Bonbon.update returns Err, every
\* field of the Bonbon has the value it had before the call.
UpdateAtomicOnError ==
    [][ last'.result \notin {"Ok", "Panic"} => bonbon' = bonbon ]_vars

----------------------------------------------------------------------------
(* Properties of the transient overlay, checked under SpecPartition.        *)

\* The account index a token instruction names at position 0 is in `metas`.
FirstAccountIn(metas) ==
    /\ Len(plast[1].instruction.accounts) > 0
    /\ plast[1].instruction.accounts[1] \in AccountsOf(metas)

\* C34: transient overlay invariant.  At every point of
\* partition_transaction the overlay holds at most one entry per
\* account_index and no entry for an account_index of the base balance
\* index; an InitializeAccount or InitializeAccount2 for an account already
\* in the overlay adds nothing, and a CloseAccount for an account that is
\* not in the overlay leaves the overlay unchanged.
OverlayInvariant ==
    /\ \A i, j \in 1..Len(transient_metas) :
          i # j => transient_metas[i].account_index # transient_metas[j].account_index
    /\ pc \in {"outer", "inner", "outer_ins", "done"} =>
          AccountsOf(transient_metas) \cap AccountsOf(token_metas) = {}
    /\ ( /\ LastTokenCall({"InitializeAccount", "InitializeAccount2"})
         /\ FirstAccountIn(plast[1].overlay_before) )
       => /\ plast[1].result = "Ok"
          /\ transient_metas = plast[1].overlay_before
    /\ ( /\ LastTokenCall({"CloseAccount"})
         /\ ~FirstAccountIn(plast[1].overlay_before) )
       => transient_metas = plast[1].overlay_before

\* An InitializeAccount for an account already in the overlay has returned.
OverlayInvariantWitness ==
    /\ LastTokenCall({"InitializeAccount", "InitializeAccount2"})
    /\ FirstAccountIn(plast[1].overlay_before)
    /\ Len(transient_metas) = 1

\* p (a value of plast) is a call that handed a token instruction of one of
\* `kinds`, with an account at the position its variant looks up, to
\* partition_token_instruction.
LookupCall(p, kinds) ==
    /\ IsSome(p)
    /\ p[1].found
    /\ AccountKeys[p[1].instruction.program_id_index + 1] = TokenProgramId
    /\ p[1].instruction.data.enc = "token"
    /\ p[1].instruction.data.kind \in kinds
    /\ LookupPosition(p[1].instruction.data.kind) < Len(p[1].instruction.accounts)

\* The account index the instruction of the call p refers to.
Referenced(p) ==
    p[1].instruction.accounts[LookupPosition(p[1].instruction.data.kind) + 1]

\* The call p found its account in the overlay and not in the balance index.
OnOverlayOnly(p) ==
    /\ LookupCall(p, LookupKinds)
    /\ Referenced(p) \in AccountsOf(p[1].overlay_before)
    /\ Referenced(p) \notin AccountsOf(token_metas)

\* The step is a call for an instruction on the account that the call before
\* it, a CloseAccount, removed from the overlay.
AfterItsClose ==
    /\ plast' # plast
    /\ LookupCall(plast', LookupKinds)
    /\ LookupCall(plast, {"CloseAccount"})
    /\ Referenced(plast) \in AccountsOf(plast[1].overlay_before)
    /\ Referenced(plast) \notin AccountsOf(plast'[1].overlay_before)
    /\ Referenced(plast') = Referenced(plast)
    /\ Referenced(plast') \notin AccountsOf(token_metas)

\* C35 as stated: a Transfer, Approve, Revoke, SetAuthority, MintTo, Burn,
\* FreezeAccount or ThawAccount (or a checked variant) on an account found
\* only in the overlay returns Ok(None); after the CloseAccount that removed
\* the account, such an instruction returns Err(BadTokenMetaAccountIndex).
TransientAccountAlwaysErr ==
    [][ /\ (plast' # plast /\ OnOverlayOnly(plast'))
           => (plast'[1].result = "Ok" /\ plast'[1].key = None)
        /\ AfterItsClose => plast'[1].result = "BadTokenMetaAccountIndex" ]_vars

\* C35: an instruction of those kinds on an account found only in the
\* overlay returns Ok(None) and is not emitted.  After the CloseAccount that
\* removed the account, the instruction returns
\* Err(BadTokenMetaAccountIndex), and so does partition_transaction, unless
\* its amount or decimals check turns it away or it is a
\* SetAuthority{MintTokens}: those return Ok(None) as before.
TransientAccountKeys ==
    [][ /\ (plast' # plast /\ OnOverlayOnly(plast'))
           => /\ plast'[1].result = "Ok"
              /\ plast'[1].key = None
              /\ partitioned' = partitioned
        /\ AfterItsClose =>
              IF \/ OverAmount(plast'[1].instruction)
                 \/ /\ plast'[1].instruction.data.kind = "SetAuthority"
                    /\ plast'[1].instruction.data.authority_type = "MintTokens"
              THEN plast'[1].result = "Ok" /\ plast'[1].key = None
              ELSE /\ plast'[1].result = "BadTokenMetaAccountIndex"
                   /\ result' = "BadTokenMetaAccountIndex" ]_vars

\* A Revoke on the overlay account returned Ok(None) between the
\* InitializeAccount and the CloseAccount, and the same Revoke after the
\* CloseAccount has returned Err(BadTokenMetaAccountIndex).
TransientAccountKeysWitness ==
    /\ Returned
    /\ IsSome(tx)
    /\ tx[1].outer = <<DrvInit, DrvRevoke, DrvClose, DrvRevoke>>
    /\ token_metas = <<>>
    /\ Len(PastCalls) = 4
    /\ plast[1].instruction = DrvRevoke
    /\ plast[1].result = "BadTokenMetaAccountIndex"
    /\ partitioned = <<>>

\* C36: Limited is absorbing and Master is reached from None only.  Once
\* edition_status is Limited it is Limited after every later update, and
\* every later create-master-edition fails: with InvalidMasterEditionCreate
\* when its metadata account position names an account key (before that is
\* looked at, get_account_key fails with BadAccountKeyIndex).
\* edition_status becomes Master only by a successful create-master-edition
\* applied while it is None.
LimitedAbsorbing ==
    [][ /\ bonbon.edition_status = "Limited" =>
              /\ bonbon'.edition_status = "Limited"
              /\ MetadataCallOf(last', MasterEditionKinds) =>
                    /\ bonbon' = bonbon
                    /\ last'.result =
                         IF IsSome(KeyAt(last'.ins,
                                         MasterEditionPosition(last'.ins.data.kind)))
                         THEN "InvalidMasterEditionCreate"
                         ELSE "BadAccountKeyIndex"
        /\ (bonbon'.edition_status = "Master" /\ bonbon.edition_status # "Master") =>
              /\ bonbon.edition_status = "None"
              /\ MetadataCallOf(last', MasterEditionKinds)
              /\ last'.result = "Ok" ]_vars

\* A create-master-edition naming the Bonbon's own metadata account has
\* failed on a Bonbon that a mint-new-edition had made Limited.
LimitedAbsorbingWitness ==
    /\ bonbon.edition_status = "Limited"
    /\ MetadataCallOf(last, MasterEditionKinds)
    /\ KeyAt(last.ins, MasterEditionPosition(last.ins.data.kind))
          = Some(bonbon.metadata_key)
    /\ last.result = "InvalidMasterEditionCreate"

\* The position of the metadata account in a metadata instruction.
MetadataPosition(kind) ==
    IF kind \in MasterEditionKinds THEN MasterEditionPosition(kind) ELSE 0

\* The error of the guard of a metadata instruction that needs the metadata
\* to exist.
InvalidErrorOf(kind) ==
    CASE kind \in UpdateKinds -> "InvalidMetadataUpdate"
      [] kind \in VerifyKinds -> "InvalidMetadataVerifyOperation"
      [] kind \in MasterEditionKinds -> "InvalidMasterEditionCreate"

\* C39: metadata must be created first.  From a default Bonbon, as long as
\* no CreateMetadataAccount (v1/v2) and no mint-new-edition has succeeded,
\* glazing is empty and edition_status is None, and every
\* UpdateMetadataAccount, SignMetadata, RemoveCreatorVerification,
\* Verify/Unverify/SetAndVerifyCollection and create-master-edition (whose
\* metadata account position names an account key) fails with its Invalid*
\* error.
MetadataCreatedFirst ==
    [][ /\ (meta_set' = None /\ last'.result # "Panic") =>
              /\ bonbon'.glazing = <<>>
              /\ bonbon'.edition_status = "None"
        /\ ( /\ meta_set = None
             /\ MetadataCallOf(last', UpdateKinds \cup VerifyKinds
                                         \cup MasterEditionKinds)
             /\ IsSome(KeyAt(last'.ins, MetadataPosition(last'.ins.data.kind))) )
           => last'.result = InvalidErrorOf(last'.ins.data.kind) ]_vars

----------------------------------------------------------------------------
(* Properties of the two updaters together, checked under SpecFrame.        *)

\* The program of the call's instruction is `program_id`.
RoutedTo(l, program_id) ==
    /\ l.ins.program_id_index < Len(AccountKeys)
    /\ AccountKeys[l.ins.program_id_index + 1] = program_id

\* C37: frame of the two updaters.  update_token_instruction never changes
\* metadata_key, edition_status, limited_edition or glazing, and changes
\* mint_key only on InitializeMint; update_metadata_instruction never
\* changes mint_key, current_owner or current_account; a Bonbon.update whose
\* program has no registered updater returns Ok and changes no field.
UpdaterFrames ==
    [][ /\ RoutedTo(last', TokenProgramId) =>
              /\ bonbon'.metadata_key = bonbon.metadata_key
              /\ bonbon'.edition_status = bonbon.edition_status
              /\ bonbon'.limited_edition = bonbon.limited_edition
              /\ bonbon'.glazing = bonbon.glazing
              /\ bonbon'.mint_key # bonbon.mint_key =>
                    /\ last'.ins.data.enc = "token"
                    /\ last'.ins.data.kind = "InitializeMint"
        /\ RoutedTo(last', MetadataProgramId) =>
              /\ bonbon'.mint_key = bonbon.mint_key
              /\ bonbon'.current_owner = bonbon.current_owner
              /\ bonbon'.current_account = bonbon.current_account
        /\ ( /\ last'.ins.program_id_index < Len(AccountKeys)
             /\ ~RoutedTo(last', TokenProgramId)
             /\ ~RoutedTo(last', MetadataProgramId) ) =>
              /\ last'.result = "Ok"
              /\ bonbon' = bonbon ]_vars

\* A metadata instruction has appended a snapshot to a Bonbon that has an
\* owner and an account, and whose mint is set.
UpdaterFramesWitness ==
    /\ RoutedTo(last, MetadataProgramId)
    /\ last.result = "Ok"
    /\ bonbon.mint_key = "MintA"
    /\ IsSome(bonbon.current_owner)
    /\ IsSome(bonbon.current_account)
    /\ Len(bonbon.glazing) = 2
    /\ bonbon.edition_status = "Master"

----------------------------------------------------------------------------
(* Malformed instructions, checked under SpecPartition.                     *)

\* C38: malformed instructions are reported as error values.  No call of a
\* partitioner and no Bonbon.update aborts: an instruction whose accounts
\* list is shorter than the position read, or names an index outside
\* account_keys, makes the call return an Err.
MalformedIsError ==
    /\ last.result # "Panic"
    /\ IsSome(plast) => plast[1].result # "Panic"
    /\ result # "Panic"

====
